---------------------------- MODULE Spec2Model ----------------------------
(***************************************************************************)
(* Qlara: incremental on-demand regeneration for a statically exported     *)
(* site.  The model covers the Lambda@Edge origin-request handler          *)
(* (forward-only), the renderer Lambda, the S3 object store they share,    *)
(* the Lambda platform's function timeouts and the deploy-time sync.       *)
(*                                                                         *)
(* Strings are sequences of lexemes: every character the code inspects     *)
(* ("/", ".", ":", "?", "$", "&") is a lexeme of its own; runs of other    *)
(* characters that the code never splits ("html", "_fallback", "index",    *)
(* "__QLARA_FALLBACK_") are one lexeme each.                               *)
(***************************************************************************)
EXTENDS Naturals, Integers, Sequences, FiniteSets, TLC

(***************************************************************************)
(* Sequence helpers                                                        *)
(***************************************************************************)
Take(s, n) == SubSeq(s, 1, n)

Drop(s, n) == SubSeq(s, n + 1, Len(s))

StartsWith(s, p) == Len(p) <= Len(s) /\ Take(s, Len(p)) = p

EndsWith(s, p) == Len(p) <= Len(s) /\ Drop(s, Len(s) - Len(p)) = p

\* Index of the first occurrence of p in s (0 when there is none).
IndexOf(s, p) ==
    LET hits == { i \in 1..(Len(s) - Len(p) + 1) : SubSeq(s, i, i + Len(p) - 1) = p }
    IN IF Len(p) = 0 \/ hits = {} THEN 0
       ELSE CHOOSE i \in hits : \A j \in hits : i <= j

Includes(s, p) == IndexOf(s, p) # 0

RECURSIVE Join(_, _)
Join(parts, sep) ==
    IF Len(parts) = 0 THEN << >>
    ELSE IF Len(parts) = 1 THEN parts[1]
    ELSE parts[1] \o sep \o Join(Tail(parts), sep)

\* String.prototype.split for a one-lexeme separator.
RECURSIVE Split(_, _)
Split(s, c) ==
    LET i == IndexOf(s, <<c>>)
    IN IF i = 0 THEN <<s>>
       ELSE <<Take(s, i - 1)>> \o Split(Drop(s, i), c)

\* The lexemes matched by the character class [a-z0-9] (one or more times).
AlnumLexemes == {"html", "txt", "css", "index", "p", "q", "s", "i", "v",
                 "1", "2", "4", "7"}

(***************************************************************************)
(* Constants of the code                                                   *)
(***************************************************************************)
FALLBACK_FILENAME == <<"_fallback", ".", "html">>

MANIFEST_KEY == <<"qlara-manifest", ".", "json">>

DOT_HTML == <<".", "html">>

DOT_TXT == <<".", "txt">>

\* Seconds.
MANIFEST_CACHE_TTL == 300

EDGE_TIMEOUT == 30

RENDERER_TIMEOUT == 30

(***************************************************************************)
(* Route table: routes.ts                                                  *)
(***************************************************************************)
\* The longest prefix of s that holds no "/": what [^/]+ can consume.
RECURSIVE NonSlashRun(_)
NonSlashRun(s) ==
    IF s = << >> \/ Head(s) = "/" THEN << >>
    ELSE <<Head(s)>> \o NonSlashRun(Tail(s))

\* pattern.match(/:([^/]+)/g).map(m => m.slice(1))
RECURSIVE extractParamNames(_)
extractParamNames(pattern) ==
    IF pattern = << >> THEN << >>
    ELSE IF Head(pattern) = ":" /\ NonSlashRun(Tail(pattern)) # << >>
         THEN LET name == NonSlashRun(Tail(pattern))
              IN <<name>> \o extractParamNames(Drop(pattern, 1 + Len(name)))
         ELSE extractParamNames(Tail(pattern))

\* A compiled regex is a sequence of items: a literal lexeme or the capture
\* group ([^/]+); the whole is anchored ^...$.
Lit(c) == [k |-> "lit", c |-> c]

Grp == [k |-> "grp", c |-> ""]

RECURSIVE patternToRegex(_)
patternToRegex(pattern) ==
    IF pattern = << >> THEN << >>
    ELSE IF Head(pattern) = ":" /\ NonSlashRun(Tail(pattern)) # << >>
         THEN <<Grp>> \o patternToRegex(Drop(pattern, 1 + Len(NonSlashRun(Tail(pattern)))))
         ELSE <<Lit(Head(pattern))>> \o patternToRegex(Tail(pattern))

NoMatch == [ok |-> FALSE, caps |-> << >>]

\* cleanUrl.match(new RegExp(regex)): greedy, backtracking.
RECURSIVE ReMatch(_, _)
ReMatch(re, s) ==
    IF re = << >> THEN (IF s = << >> THEN [ok |-> TRUE, caps |-> << >>] ELSE NoMatch)
    ELSE IF Head(re).k = "lit"
         THEN IF s # << >> /\ Head(s) = Head(re).c THEN ReMatch(Tail(re), Tail(s)) ELSE NoMatch
         ELSE LET ks == { k \in 1..Len(NonSlashRun(s)) : ReMatch(Tail(re), Drop(s, k)).ok }
              IN IF ks = {} THEN NoMatch
                 ELSE LET k == CHOOSE x \in ks : \A y \in ks : y <= x
                      IN [ok |-> TRUE, caps |-> <<Take(s, k)>> \o ReMatch(Tail(re), Drop(s, k)).caps]

\* params[name] = match[i + 1] for each name in order: a later duplicate name
\* overwrites the value, the key keeps its first position.
RECURSIVE BindParams(_, _, _)
BindParams(names, caps, acc) ==
    IF names = << >> THEN acc
    ELSE LET hit == { i \in 1..Len(acc) : acc[i].name = Head(names) }
             val == IF caps = << >> THEN << >> ELSE Head(caps)
             rest == IF caps = << >> THEN << >> ELSE Tail(caps)
         IN IF hit = {}
            THEN BindParams(Tail(names), rest, Append(acc, [name |-> Head(names), value |-> val]))
            ELSE BindParams(Tail(names), rest,
                            [acc EXCEPT ![CHOOSE i \in hit : TRUE].value = val])

NoRoute == [pattern |-> << >>, paramNames |-> << >>, regex |-> << >>]

NoRouteMatch == [found |-> FALSE, route |-> NoRoute, params |-> << >>]

\* url.split('?')[0].replace(/\/$/, '') || '/'
CleanUrl(url) ==
    LET noQuery == Split(url, "?")[1]
        noSlash == IF EndsWith(noQuery, <<"/">>) THEN Take(noQuery, Len(noQuery) - 1) ELSE noQuery
    IN IF noSlash = << >> THEN <<"/">> ELSE noSlash

\* A faulty variant: the last matching route wins.
RECURSIVE matchRouteLast(_, _)
matchRouteLast(url, routes) ==
    IF routes = << >> THEN NoRouteMatch
    ELSE LET m == ReMatch(routes[Len(routes)].regex, CleanUrl(url))
         IN IF m.ok
            THEN [found |-> TRUE, route |-> routes[Len(routes)],
                  params |-> BindParams(routes[Len(routes)].paramNames, m.caps, << >>)]
            ELSE matchRouteLast(url, Take(routes, Len(routes) - 1))

RECURSIVE matchRoute(_, _)
matchRoute(url, routes) ==
    IF routes = << >> THEN NoRouteMatch
    ELSE LET m == ReMatch(Head(routes).regex, CleanUrl(url))
         IN IF m.ok
            THEN [found |-> TRUE, route |-> Head(routes),
                  params |-> BindParams(Head(routes).paramNames, m.caps, << >>)]
            ELSE matchRoute(url, Tail(routes))

\* Does matchRoute throw?  new RegExp(route.regex) is a SyntaxError for a
\* source with an unescaped "(" that nothing closes; it is compiled when the
\* loop reaches the route, that is when no route before it has matched.
RECURSIVE matchRouteThrows(_, _)
matchRouteThrows(url, routes) ==
    IF routes = << >> THEN FALSE
    ELSE IF \E i \in 1..Len(Head(routes).regex) : Head(routes).regex[i].k = "open" THEN TRUE
    ELSE IF ReMatch(Head(routes).regex, CleanUrl(url)).ok THEN FALSE
    ELSE matchRouteThrows(url, Tail(routes))

ManifestRouteOf(pattern) ==
    [pattern |-> pattern, paramNames |-> extractParamNames(pattern),
     regex |-> patternToRegex(pattern)]

buildManifest(patterns) ==
    [version |-> 1, routes |-> [i \in 1..Len(patterns) |-> ManifestRouteOf(patterns[i])]]

(***************************************************************************)
(* Keys and the viewer-request rewrite                                     *)
(***************************************************************************)
StripLeadingSlash(s) == IF StartsWith(s, <<"/">>) THEN Tail(s) ELSE s

StripTrailingSlash(s) == IF EndsWith(s, <<"/">>) THEN Take(s, Len(s) - 1) ELSE s

\* uri.replace(/\.html$/, '')
StripHtml(uri) == IF EndsWith(uri, DOT_HTML) THEN Take(uri, Len(uri) - 2) ELSE uri

\* The CloudFront Function that runs at viewer-request, before the edge handler.
\* A faulty variant: every extensionless path is rewritten directory-style.
cfFunctionRewriteIndex(uri) ==
    IF uri = <<"/">> THEN <<"/", "index", ".", "html">>
    ELSE IF EndsWith(uri, <<"/">>) THEN uri \o <<"index", ".", "html">>
    ELSE IF ~Includes(uri, <<".">>) THEN uri \o <<"/", "index", ".", "html">>
    ELSE uri

cfFunctionRewrite(uri) ==
    IF uri = <<"/">> THEN <<"/", "index", ".", "html">>
    ELSE IF EndsWith(uri, <<"/">>) THEN uri \o <<"index", ".", "html">>
    ELSE IF ~Includes(uri, <<".">>) THEN uri \o DOT_HTML
    ELSE uri

\* uri.match(/\.([a-z0-9]+)$/)?.[1]: the lexemes after the last ".", when
\* there is at least one and all are [a-z0-9]; << >> when the regex fails.
nonHtmlExt(uri) ==
    LET dots == { i \in 1..Len(uri) : uri[i] = "." }
    IN IF dots = {} THEN << >>
       ELSE LET d == CHOOSE i \in dots : \A j \in dots : j <= i
                tail == Drop(uri, d)
            IN IF tail # << >> /\ \A i \in 1..Len(tail) : tail[i] \in AlnumLexemes
               THEN tail ELSE << >>

\* A faulty variant: the directory form of the key (trailingSlash exports).
deriveS3KeyIndex(uri) ==
    LET cleanUri == StripTrailingSlash(StripLeadingSlash(uri))
    IN IF cleanUri = << >> THEN <<"index", ".", "html">>
       ELSE cleanUri \o <<"/", "index", ".", "html">>

deriveS3Key(uri) ==
    LET cleanUri == StripTrailingSlash(StripLeadingSlash(uri))
    IN IF cleanUri = << >> THEN <<"index", ".", "html">>
       ELSE IF EndsWith(cleanUri, DOT_HTML) THEN cleanUri
       ELSE cleanUri \o DOT_HTML

\* The static segments of the pattern joined by "/", plus _fallback.html.
StaticParts(pattern) ==
    LET parts == Split(StripLeadingSlash(pattern), "/")
        IsStatic(part) == ~StartsWith(part, <<":">>)
    IN SelectSeq(parts, IsStatic)

deriveFallbackKey(routePattern) ==
    Join(Append(StaticParts(routePattern), FALLBACK_FILENAME), <<"/">>)

getFallbackKey(routePattern) ==
    Join(Append(StaticParts(routePattern), FALLBACK_FILENAME), <<"/">>)

\* join(...dirParts, FALLBACK_FILENAME): the path of the template file
\* relative to the build directory, which is the key it is uploaded under.
\* path.join normalises: empty and "." segments vanish.
fallbackRelativePath(routePattern) ==
    LET IsName(part) == part # << >> /\ part # <<".">>
    IN Join(Append(SelectSeq(StaticParts(routePattern), IsName), FALLBACK_FILENAME), <<"/">>)

\* `__QLARA_FALLBACK_${paramName}__`; the two closing underscores are two
\* lexemes, as an underscore may also end a parameter name.
paramPlaceholder(paramName) == <<"__QLARA_FALLBACK_">> \o paramName \o <<"_", "_">>

\* s3Key.replace(/\.html$/, '.txt')
TxtKey(s3Key) == IF EndsWith(s3Key, DOT_HTML) THEN Take(s3Key, Len(s3Key) - 2) \o DOT_TXT ELSE s3Key

(***************************************************************************)
(* String.prototype.replace                                                *)
(***************************************************************************)
\* The replacement string r with its $-patterns expanded: $$ -> $, $& -> the
\* match, $ grave -> the text before the match, $ apostrophe -> the text
\* after it (the lexemes "grave" and "apos" stand for those two characters).
RECURSIVE Expand(_, _, _, _)
Expand(r, m, pre, post) ==
    IF r = << >> THEN << >>
    ELSE IF Head(r) = "$" /\ Len(r) >= 2 /\ r[2] \in {"$", "&", "grave", "apos"}
         THEN (CASE r[2] = "$" -> <<"$">>
                 [] r[2] = "&" -> m
                 [] r[2] = "grave" -> pre
                 [] OTHER -> post) \o Expand(Drop(r, 2), m, pre, post)
         ELSE <<Head(r)>> \o Expand(Tail(r), m, pre, post)

\* s.replace(new RegExp(p, 'g'), r), p a literal: every occurrence of p in s
\* from position `from` on, left to right, without overlap.
RECURSIVE ReplaceFrom(_, _, _, _)
ReplaceFrom(s, p, r, from) ==
    LET i == IndexOf(Drop(s, from - 1), p)
    IN IF i = 0 THEN Drop(s, from - 1)
       ELSE LET at == from - 1 + i
            IN SubSeq(s, from, at - 1)
               \o Expand(r, p, Take(s, at - 1), Drop(s, at + Len(p) - 1))
               \o ReplaceFrom(s, p, r, at + Len(p))

ReplaceAll(s, p, r) == ReplaceFrom(s, p, r, 1)

\* s.replace(/open[^]*?close/, `open${r}close`): the first region from the
\* lexeme open to the next lexeme close gets the content r; r is part of a
\* replacement string, so its $-patterns are expanded.
ReplaceRegion(s, open, close, r) ==
    LET i == IndexOf(s, <<open>>)
        j == IF i = 0 THEN 0 ELSE IndexOf(Drop(s, i), <<close>>)
    IN IF i = 0 \/ j = 0 THEN s
       ELSE Take(s, i)
            \o Expand(r, SubSeq(s, i, i + j), Take(s, i - 1), Drop(s, i + j))
            \o Drop(s, i + j - 1)

(***************************************************************************)
(* Documents.  A page is                                                   *)
(*   <title> T </title> <main> C </main> push( {n=v}... 8:{ T } )          *)
(* where push( ... ) is the embedded navigation/hydration payload, {n=v}   *)
(* the component props that carry a route parameter and 8:{ ... } the      *)
(* payload's metadata entry.                                               *)
(***************************************************************************)
RECURSIVE Props(_)
Props(params) ==
    IF params = << >> THEN << >>
    ELSE <<"{">> \o Head(params).name \o <<"=">> \o Head(params).value \o <<"}">>
         \o Props(Tail(params))

Page(title, params) ==
    <<"<title>">> \o title \o <<"</title>", "<main>", "content", "</main>", "push(">>
    \o Props(params) \o <<"8:{">> \o title \o <<"}", ")">>

\* {"name":"VALUE"} -> {"name":"<placeholder>"}, every occurrence.
RECURSIVE ReplaceProps(_, _)
ReplaceProps(s, name) ==
    LET hd == <<"{">> \o name \o <<"=">>
        i == IndexOf(s, hd)
        rest == Drop(s, i + Len(hd) - 1)
        j == IndexOf(rest, <<"}">>)
    IN IF i = 0 THEN s
       ELSE IF j <= 1 THEN Take(s, i + Len(hd) - 1) \o ReplaceProps(rest, name)
       ELSE Take(s, i - 1) \o hd \o paramPlaceholder(name) \o <<"}">>
            \o ReplaceProps(Drop(rest, j), name)

RECURSIVE ReplacePropsAll(_, _)
ReplacePropsAll(s, names) ==
    IF names = << >> THEN s
    ELSE ReplacePropsAll(ReplaceProps(s, Head(names)), Tail(names))

generateFallbackFromTemplate(templateHtml, routePattern) ==
    LET paramNames == extractParamNames(routePattern)
        s1 == ReplaceRegion(templateHtml, "<title>", "</title>", <<"Loading...">>)
        s3 == ReplaceRegion(s1, "<main>", "</main>", <<"<div>Loading...</div>">>)
        s4 == ReplacePropsAll(s3, paramNames)
    IN ReplaceRegion(s4, "8:{", "}", <<"Loading...">>)

EscapeLexeme(c, table) ==
    IF \E pair \in table : pair[1] = c THEN (CHOOSE pair \in table : pair[1] = c)[2] ELSE c

escapeHtml(str) ==
    [i \in 1..Len(str) |->
        EscapeLexeme(str[i], {<<"&", "&amp;">>, <<"<", "&lt;">>, <<">", "&gt;">>})]

escapeRsc(str) ==
    [i \in 1..Len(str) |->
        EscapeLexeme(str[i], {<<"\\", "\\\\">>, <<"\"", "\\\"">>})]

\* A faulty variant: only the payload's metadata entry is patched.
patchMetadataPayloadOnly(html, metadata) ==
    ReplaceRegion(html, "8:{", "}", escapeRsc(metadata.title))

\* Step 1 (the <title> tag) and step 4 (the payload's metadata entry).
patchMetadata(html, metadata) ==
    LET patched == ReplaceRegion(html, "<title>", "</title>", escapeHtml(metadata.title))
    IN ReplaceRegion(patched, "8:{", "}", escapeRsc(metadata.title))

\* for (const [name, value] of Object.entries(params))
\*   html = html.replace(new RegExp(paramPlaceholder(name), 'g'), value)
RECURSIVE SubstituteParams(_, _)
SubstituteParams(html, params) ==
    IF params = << >> THEN html
    ELSE SubstituteParams(ReplaceAll(html, paramPlaceholder(Head(params).name), Head(params).value),
                          Tail(params))

\* The payload chunks self.__next_f.push([1,"..."]) of the document, joined.
RECURSIVE FlightChunks(_)
FlightChunks(html) ==
    LET i == IndexOf(html, <<"push(">>)
        rest == Drop(html, i)
        j == IndexOf(rest, <<")">>)
    IN IF i = 0 \/ j = 0 THEN << >>
       ELSE <<Take(rest, j - 1)>> \o FlightChunks(Drop(rest, j))

extractRscFlightData(html) ==
    LET chunks == FlightChunks(html)
    IN [found |-> chunks # << >>, data |-> Join(chunks, << >>)]

HasPlaceholder(doc) == \E i \in 1..Len(doc) : doc[i] = "__QLARA_FALLBACK_"

(***************************************************************************)
(* The object store (S3)                                                   *)
(***************************************************************************)
TextObj(body) == [type |-> "text", body |-> body, routes |-> << >>]

\* JSON.stringify(manifest, null, 2)
ManifestObj(manifest) == [type |-> "json", body |-> <<"{manifest}">>, routes |-> manifest.routes]

\* JSON.parse(body) as QlaraManifest: the cast checks nothing, an object
\* without a route list ({}) parses as well as a manifest.
ParsedManifest(obj) ==
    [ok |-> TRUE, routes |-> obj.routes, hasRoutes |-> obj.body # <<"{", "}">>]

\* A faulty variant: a write to an existing key appends to the object.
PutMerge(st, key, obj) ==
    [k \in (DOMAIN st) \cup {key} |->
        IF k # key THEN st[k]
        ELSE IF key \in DOMAIN st THEN [obj EXCEPT !.body = st[key].body \o obj.body]
        ELSE obj]

\* PutObjectCommand: an unconditional overwrite of the whole object.
PutObject(st, key, obj) == [k \in (DOMAIN st) \cup {key} |-> IF k = key THEN obj ELSE st[k]]

\* DeleteObjectsCommand
DeleteObjects(st, keys) == [k \in (DOMAIN st) \ keys |-> st[k]]

(***************************************************************************)
(* The site: route files, build output, requests                           *)
(***************************************************************************)
P1 == <<"/", "p", "/", ":", "i">>

P2 == <<"/", "p", "/", ":", "i", "/", ":", "v">>

\* A route for which the build has no page: no fallback is generated.
P0 == <<"/", ":", "i">>

\* The route files a deploy may carry (the patterns of its route definitions).
RouteFiles == { <<P1>>, <<P1, P2>>, <<P1, P0>> }

\* The titles the integrator's metadata generator may return.
Titles == { <<"W">>, <<"X">> }

\* Request paths as the viewer sends them (before the viewer-request rewrite).
RawUris == { <<"/", "p", "/", "4">>,
             <<"/", "p", "/", "4", "/", "7">>,
             <<"/", "q">>,
             <<"/", "s", ".", "css">>,
             <<"/", "s", ".", "JPG">>,
             <<"/", "p", "/", "_fallback", ".", "html">> }

K_page1 == <<"p", "/", "1", ".", "html">>

K_page12 == <<"p", "/", "1", "/", "2", ".", "html">>

\* The per-segment prefetch files next to a page of a build with a segment
\* cache, by what classifySegmentFile answers for them: __next._tree.txt,
\* __next._head.txt, __next._full.txt.
SegmentFile(type) == <<"__next._", type, ".", "txt">>


Param(n, v) == [name |-> <<n>>, value |-> <<v>>]

\* out/ after `next build` with the plugin: the pre-built pages and the manifest.
BuildOutput(routeFile) ==
    (K_page12 :> TextObj(Page(<<"T12">>, <<Param("i", "1"), Param("v", "2")>>)))
    @@ (K_page1 :> TextObj(Page(<<"T1">>, <<Param("i", "1")>>)))
    @@ (MANIFEST_KEY :> ManifestObj(buildManifest(routeFile)))

\* readdirSync order, directories walked depth-first.
KeyOrder == << K_page12, K_page1, <<"p", "/", "_fallback", ".", "html">>, MANIFEST_KEY >>

listFiles(build) ==
    LET Present(k) == k \in DOMAIN build
    IN SelectSeq(KeyOrder, Present)

HiddenLexemes == {"_fallback", "_next", "."}

\* The first page the depth-first walk of findTemplateForRoute reaches:
\* static segments name the directory, a dynamic segment tries every
\* directory that is not hidden, the last segment takes any *.html file but
\* _fallback.html.  << >> when there is none.
findTemplateForRoute(build, routePattern) ==
    LET segments == Split(StripLeadingSlash(routePattern), "/")
        n == Len(segments)
        Fits(key) ==
            LET parts == Split(key, "/")
            IN /\ Len(parts) = n
               /\ \A i \in 1..(n - 1) :
                     IF StartsWith(segments[i], <<":">>)
                     THEN Head(parts[i]) \notin HiddenLexemes
                     ELSE parts[i] = segments[i]
               /\ EndsWith(parts[n], DOT_HTML)
               /\ parts[n] # FALLBACK_FILENAME
        found == SelectSeq(listFiles(build), Fits)
    IN IF found = << >> THEN << >> ELSE Head(found)

\* One fallback per route, in route order, written into the build directory
\* at the key of the route's static segments: a later route with the same
\* static segments overwrites the earlier one's file.
\* A faulty variant: a template that is already there is kept.
RECURSIVE generateFallbacksKeep(_, _)
generateFallbacksKeep(build, routes) ==
    IF routes = << >> THEN build
    ELSE LET templatePath == findTemplateForRoute(build, Head(routes))
         IN IF templatePath = << >> \/ fallbackRelativePath(Head(routes)) \in DOMAIN build
            THEN generateFallbacksKeep(build, Tail(routes))
            ELSE generateFallbacksKeep(
                   PutObject(build, fallbackRelativePath(Head(routes)),
                             TextObj(generateFallbackFromTemplate(build[templatePath].body,
                                                                  Head(routes)))),
                   Tail(routes))

RECURSIVE generateFallbacks(_, _)
generateFallbacks(build, routes) ==
    IF routes = << >> THEN build
    ELSE LET templatePath == findTemplateForRoute(build, Head(routes))
         IN IF templatePath = << >> THEN generateFallbacks(build, Tail(routes))
            ELSE generateFallbacks(
                   PutObject(build, fallbackRelativePath(Head(routes)),
                             TextObj(generateFallbackFromTemplate(build[templatePath].body,
                                                                  Head(routes)))),
                   Tail(routes))

(***************************************************************************)
(* Bounds of the model                                                     *)
(***************************************************************************)
\* Requests served in a behaviour.
MaxRequests == 2

\* Store I/O and invocation errors injected in a behaviour.
MaxFaults == 1

\* Deploys run after the initial one.
MaxDeploys == 1

\* Steps of the clock.
MaxTicks == 1

\* Parties acting concurrently in a behaviour: the edge locations that take
\* traffic, plus the operator when deploys are run.
MaxParties == 2

MaxElapses == 1

\* Edge locations: each runs one handler invocation at a time and keeps its
\* own manifest cache; the renderer call of location e is renderer
\* invocation e.
Edges == {"e1", "e2"}

EdgeBefore(a, b) == a = "e1" /\ b = "e2"

(***************************************************************************)
(* State                                                                   *)
(***************************************************************************)
VARIABLES
    store,          \* S3 bucket: key -> object
    edge,           \* per location: the running origin-request handler
    manifestCache,  \* per location: the module-level manifest cache
    rend,           \* per location: the renderer invocation it called
    routes,         \* the route file bundled into the renderer Lambda
    deploy,         \* the `qlara deploy` run in progress
    now,            \* the clock, in seconds
    faults,         \* errors injected so far
    requests,       \* requests started so far
    deploys,        \* deploys started so far
    online,         \* the edge locations that take traffic
    operator,       \* is there an operator who runs deploys?
    rendered,       \* history: the paths whose render has returned success
    removed,        \* history: the keys a deploy has deleted and no render has
                    \* written since
    manifestSince,  \* history: when the manifest in the store was last written
    referencePageCache,
                    \* per renderer instance: the module-level cache of the
                    \* reference segment directory of each route prefix
    call            \* the last call of a library function outside a request:
                    \* its arguments and what it returned

vars == <<store, edge, manifestCache, rend, routes, deploy, now, faults, requests,
          deploys, online, operator, rendered, removed, manifestSince,
          referencePageCache, call>>

\* Everything but the library call.
siteVars == <<store, edge, manifestCache, rend, routes, deploy, now, faults, requests,
              deploys, online, operator, rendered, removed, manifestSince,
              referencePageCache>>

\* What getManifest returns: null (ok = FALSE) or the parsed object, whose
\* route list may be missing (hasRoutes = FALSE).
NoManifest == [ok |-> FALSE, routes |-> << >>, hasRoutes |-> FALSE]

\* let manifestCache = { data: null, expiry: 0 }
EmptyCache == [data |-> NoManifest, expiry |-> 0]

NoEvent == [uri |-> << >>, routePattern |-> << >>, params |-> << >>]

\* What the handler has handed back to CloudFront.
NoReturn == [kind |-> "none", uri |-> << >>]

IdleEdge ==
    [pc |-> "idle", uri |-> << >>, fileExists |-> FALSE, manifest |-> NoManifest,
     match |-> NoRouteMatch, payload |-> NoEvent, invoked |-> 0, invokeFailed |-> FALSE,
     result |-> NoReturn, start |-> 0, headAfterRender |-> FALSE, headFailed |-> FALSE,
     got |-> "none", getAt |-> 0, entry |-> EmptyCache, behind |-> FALSE, since |-> 0]

Pending == [state |-> "pending", body |-> << >>]

Rejected == [state |-> "rejected", body |-> << >>]

NoResult == [statusCode |-> 0, html |-> << >>, functionError |-> FALSE]

NoMetadata == [kind |-> "unset", title |-> << >>]

OffRend ==
    [pc |-> "off", event |-> NoEvent, existing |-> Pending, fallback |-> Pending,
     html |-> << >>, metadata |-> NoMetadata, result |-> NoResult, start |-> 0,
     wrote |-> {}, metaCalls |-> 0, ioError |-> FALSE, atInvoke |-> Rejected,
     failure |-> "none", isValid |-> "unset", refDir |-> << >>]

IdleDeploy == [pc |-> "idle", routeFile |-> << >>, build |-> << >>, next |-> 1, stale |-> {}]

NoCall ==
    [fn |-> "none", url |-> << >>, url2 |-> << >>, patterns |-> << >>,
     manifest |-> buildManifest(<< >>), match |-> NoRouteMatch, key |-> << >>, key2 |-> << >>,
     params |-> << >>, doc |-> << >>, doc2 |-> << >>, ok |-> FALSE,
     status |-> 0, action |-> "none", rendererInvoked |-> FALSE, manifestRead |-> FALSE]

Init ==
    /\ \E rf \in RouteFiles :
         /\ store = generateFallbacks(BuildOutput(rf), rf)
         /\ routes = rf
    /\ edge = [e \in Edges |-> IdleEdge]
    /\ manifestCache = [e \in Edges |-> EmptyCache]
    /\ rend = [e \in Edges |-> OffRend]
    /\ deploy = IdleDeploy
    /\ now = 0
    /\ faults = 0
    /\ requests = 0
    /\ deploys = 0
    /\ \E on \in (SUBSET Edges) \ {{}}, op \in BOOLEAN :
         /\ \A e \in on, other \in Edges : EdgeBefore(other, e) => other \in on
         /\ Cardinality(on) + (IF op THEN 1 ELSE 0) <= MaxParties
         /\ online = on
         /\ operator = op
    /\ rendered = {}
    /\ removed = {}
    /\ manifestSince = 0
    /\ referencePageCache = [e \in Edges |-> {}]
    /\ call = NoCall

(***************************************************************************)
(* The Lambda platform: an invocation runs only until its function timeout *)
(***************************************************************************)
EdgeAlive(e) == now - edge[e].start < EDGE_TIMEOUT

RendAlive(e) == now - rend[e].start < RENDERER_TIMEOUT

EdgeRunning(e) == edge[e].pc \in {"head", "manifest", "invoke", "wait"}

RendRunning(e) == rend[e].pc \in {"validate", "read", "meta", "puthtml", "puttxt", "segs",
                                   "segput"}

(***************************************************************************)
(* The edge handler (origin-request, forward-only)                         *)
(***************************************************************************)
\* A faulty variant: the handler answers with a response it generates.
Respond(ed) == [ed EXCEPT !.pc = "done", !.result = [kind |-> "response", uri |-> ed.uri]]

\* `return request`: the request object, which the handler never modifies.
Forward(ed) == [ed EXCEPT !.pc = "done", !.result = [kind |-> "request", uri |-> ed.uri]]

\* A faulty variant: the path is matched and passed on with its .html
\* extension.
EdgeLookupRaw(ed, manifest) ==
    LET match == IF manifest.ok THEN matchRoute(ed.uri, manifest.routes) ELSE NoRouteMatch
        seen == [ed EXCEPT !.manifest = manifest]
    IN IF match.found
       THEN [seen EXCEPT !.pc = "invoke", !.match = match, !.invoked = @ + 1,
                         !.payload = [uri |-> ed.uri,
                                      routePattern |-> match.route.pattern,
                                      params |-> match.params]]
       ELSE Forward(seen)

\* A faulty variant: the renderer is invoked whether or not a route matched.
EdgeLookupUnmatched(ed, manifest) ==
    LET cleanUri == StripHtml(ed.uri)
        match == IF manifest.ok THEN matchRoute(cleanUri, manifest.routes) ELSE NoRouteMatch
    IN [ed EXCEPT !.manifest = manifest, !.pc = "invoke", !.match = match,
                  !.invoked = @ + 1,
                  !.payload = [uri |-> cleanUri, routePattern |-> match.route.pattern,
                               params |-> match.params]]

\* const match = manifest ? matchRoute(cleanUri, manifest.routes) : null;
\* if (match) await invokeRenderer(cleanUri, match);  return request;
\* Nothing catches what matchRoute throws (a TypeError from for..of over a
\* missing route list, a SyntaxError from new RegExp): the handler rejects
\* and CloudFront answers the viewer with an error.
EdgeLookup(ed, manifest) ==
    LET cleanUri == StripHtml(ed.uri)
        throws == manifest.ok /\ (~manifest.hasRoutes
                                  \/ matchRouteThrows(cleanUri, manifest.routes))
        match == IF manifest.ok THEN matchRoute(cleanUri, manifest.routes) ELSE NoRouteMatch
        seen == [ed EXCEPT !.manifest = manifest]
    IN IF throws THEN [seen EXCEPT !.pc = "done", !.result = [kind |-> "error", uri |-> ed.uri]]
       ELSE IF match.found
       THEN [seen EXCEPT !.pc = "invoke", !.match = match, !.invoked = @ + 1,
                         !.payload = [uri |-> cleanUri,
                                      routePattern |-> match.route.pattern,
                                      params |-> match.params]]
       ELSE Forward(seen)

\* History: does the handler match against a manifest other than the one
\* in the store, and since when has the store held its manifest?
Behind(manifest) ==
    /\ manifest.ok
    /\ MANIFEST_KEY \in DOMAIN store
    /\ manifest.routes # store[MANIFEST_KEY].routes

\* History: the handler calls getManifest now, with this cache entry.
Asked(e, ed) == [ed EXCEPT !.getAt = now, !.entry = manifestCache[e]]

\* History: where the manifest the handler matches against came from.
Got(ed, from, manifest) ==
    [ed EXCEPT !.got = from, !.behind = Behind(manifest), !.since = manifestSince]

\* A faulty variant: a cache entry is returned whatever its expiry.
EdgeAfterMissNoExpiry(e, ed) ==
    IF manifestCache[e].data.ok
    THEN EdgeLookup(Got(Asked(e, ed), "cache", manifestCache[e].data), manifestCache[e].data)
    ELSE [Asked(e, ed) EXCEPT !.pc = "manifest"]

\* getManifest up to its first await: a cache entry that has not expired is
\* returned at once, otherwise the GET of the manifest is issued.
EdgeAfterMiss(e, ed) ==
    IF manifestCache[e].data.ok /\ now < manifestCache[e].expiry
    THEN EdgeLookup(Got(Asked(e, ed), "cache", manifestCache[e].data), manifestCache[e].data)
    ELSE [Asked(e, ed) EXCEPT !.pc = "manifest"]

\* The locations are interchangeable: a request goes to the first one that
\* is not busy with a handler or with the renderer invocation it called.
EdgeFree(e) == edge[e].pc \in {"idle", "done", "killed"} /\ ~RendRunning(e)

\* The handler from its entry to its first await.
EdgeStart(e, raw) ==
    /\ e \in online
    /\ EdgeFree(e)
    /\ \A other \in Edges : EdgeFree(other) => ~EdgeBefore(other, e)
    /\ requests < MaxRequests
    /\ requests' = requests + 1
    /\ LET uri == cfFunctionRewrite(raw)
           ext == nonHtmlExt(uri)
           s3Key == StripLeadingSlash(uri)
           ed == [IdleEdge EXCEPT !.uri = uri, !.start = now]
       IN edge' = [edge EXCEPT ![e] =
                     IF ext # << >> /\ ext # <<"html">> THEN Forward(ed)
                     ELSE IF s3Key # << >> THEN [ed EXCEPT !.pc = "head"]
                     ELSE EdgeAfterMiss(e, ed)]
    /\ rend' = [rend EXCEPT ![e] = OffRend]
    /\ UNCHANGED <<call, referencePageCache, store, manifestCache, routes, deploy, now, faults, deploys,
                   rendered, removed, online, operator,
                   manifestSince>>

\* Has a render of this request's path succeeded, with no deploy having
\* removed the artifact since it was last written?
RenderedBefore(ed) ==
    /\ StripHtml(ed.uri) \in rendered
    /\ deriveS3Key(StripHtml(ed.uri)) \notin removed

\* A faulty variant: the handler goes on to the manifest whatever the
\* existence check answered.
EdgeHeadThenLookup(e) ==
    /\ edge[e].pc = "head"
    /\ EdgeAlive(e)
    /\ LET fileExists == StripLeadingSlash(edge[e].uri) \in DOMAIN store
           ed == [edge[e] EXCEPT !.fileExists = fileExists,
                                 !.headAfterRender = RenderedBefore(edge[e])]
       IN edge' = [edge EXCEPT ![e] = EdgeAfterMiss(e, ed)]
    /\ UNCHANGED <<call, referencePageCache, store, manifestCache, rend, routes, deploy, now, faults, requests,
                   deploys, rendered, removed, online, operator, manifestSince>>

\* fileExistsInS3 answers: HeadObject succeeded or failed with NotFound.
EdgeHead(e) ==
    /\ edge[e].pc = "head"
    /\ EdgeAlive(e)
    /\ LET fileExists == StripLeadingSlash(edge[e].uri) \in DOMAIN store
           ed == [edge[e] EXCEPT !.fileExists = fileExists,
                                 !.headAfterRender = RenderedBefore(edge[e])]
       IN edge' = [edge EXCEPT ![e] = IF fileExists THEN Forward(ed) ELSE EdgeAfterMiss(e, ed)]
    /\ UNCHANGED <<call, referencePageCache, store, manifestCache, rend, routes, deploy, now, faults, requests,
                   deploys, rendered, removed, online, operator,
                   manifestSince>>

\* fileExistsInS3 answers: HeadObject failed with a store error, which the
\* catch turns into `false`.
EdgeHeadFault(e) ==
    /\ edge[e].pc = "head"
    /\ EdgeAlive(e)
    /\ faults < MaxFaults
    /\ faults' = faults + 1
    /\ LET ed == [edge[e] EXCEPT !.fileExists = FALSE, !.headFailed = TRUE,
                                 !.headAfterRender = RenderedBefore(edge[e])]
       IN edge' = [edge EXCEPT ![e] = EdgeAfterMiss(e, ed)]
    /\ UNCHANGED <<call, referencePageCache, store, manifestCache, rend, routes, deploy, now, requests, deploys,
                   rendered, removed, online, operator,
                   manifestSince>>

\* getManifest answers: the body parsed as JSON is cached for the TTL; an
\* absent object, an empty body or a body that is not JSON gives null.
EdgeManifest(e) ==
    /\ edge[e].pc = "manifest"
    /\ EdgeAlive(e)
    /\ LET present == MANIFEST_KEY \in DOMAIN store
           parsed == present /\ store[MANIFEST_KEY].body # << >>
                             /\ store[MANIFEST_KEY].type = "json"
           manifest == IF parsed THEN ParsedManifest(store[MANIFEST_KEY])
                       ELSE NoManifest
       IN /\ manifestCache' =
                IF parsed
                THEN [manifestCache EXCEPT ![e] = [data |-> manifest,
                                                   expiry |-> now + MANIFEST_CACHE_TTL]]
                ELSE manifestCache
          /\ edge' = [edge EXCEPT ![e] = EdgeLookup(Got(edge[e], "store", manifest), manifest)]
    /\ UNCHANGED <<call, referencePageCache, store, rend, routes, deploy, now, faults, requests, deploys,
                   rendered, removed, online, operator,
                   manifestSince>>

\* getManifest answers: the GET failed, the catch returns null.
EdgeManifestFault(e) ==
    /\ edge[e].pc = "manifest"
    /\ EdgeAlive(e)
    /\ faults < MaxFaults
    /\ faults' = faults + 1
    /\ edge' = [edge EXCEPT ![e] = EdgeLookup(Got(edge[e], "failed", NoManifest), NoManifest)]
    /\ UNCHANGED <<call, referencePageCache, store, manifestCache, rend, routes, deploy, now, requests, deploys,
                   rendered, removed, online, operator,
                   manifestSince>>

\* invokeRenderer: lambda.send throws (the invocation never starts); the
\* catch swallows the error and the handler returns the request.
EdgeInvokeFault(e) ==
    /\ edge[e].pc = "invoke"
    /\ EdgeAlive(e)
    /\ faults < MaxFaults
    /\ faults' = faults + 1
    /\ edge' = [edge EXCEPT ![e] = Forward([edge[e] EXCEPT !.invokeFailed = TRUE])]
    /\ UNCHANGED <<call, referencePageCache, store, manifestCache, rend, routes, deploy, now, requests, deploys,
                   rendered, removed, online, operator,
                   manifestSince>>

\* invokeRenderer: the synchronous invocation has answered (a result, or a
\* function error after the renderer's timeout); the answer is not looked
\* at and the handler returns the request.
EdgeResume(e) ==
    /\ edge[e].pc = "wait"
    /\ EdgeAlive(e)
    /\ rend[e].pc \in {"returned", "timedout"}
    /\ edge' = [edge EXCEPT ![e] = Forward(edge[e])]
    /\ UNCHANGED <<call, referencePageCache, store, manifestCache, rend, routes, deploy, now, faults, requests,
                   deploys, rendered, removed, online, operator,
                   manifestSince>>

\* The platform stops a handler invocation that has used up its timeout:
\* nothing is returned to CloudFront.
EdgeKill(e) ==
    /\ EdgeRunning(e)
    /\ ~EdgeAlive(e)
    /\ edge' = [edge EXCEPT ![e].pc = "killed"]
    /\ UNCHANGED <<call, referencePageCache, store, manifestCache, rend, routes, deploy, now, faults, requests,
                   deploys, rendered, removed, online, operator,
                   manifestSince>>

(***************************************************************************)
(* The renderer Lambda                                                     *)
(***************************************************************************)
\* routes?.find(r => r.route === routePattern)
HasRouteDef(routePattern) == \E i \in 1..Len(routes) : routes[i] = routePattern

Return(r, statusCode, html) ==
    [r EXCEPT !.pc = "returned",
              !.result = [statusCode |-> statusCode, html |-> html, functionError |-> FALSE]]

\* The catch block of the handler, entered with an Error.
RenderFailed(r) == Return(r, 500, << >>)

\* What user code (the validation hook, the metadata generator) can throw
\* or reject with: an Error, or a value without properties (`throw
\* undefined`, `Promise.reject()`).
Thrown == {"error", "nullish"}

\* The handler's promise rejects: the caller's invocation answers with a
\* function error and no result.
Raised(r) ==
    [r EXCEPT !.pc = "returned",
              !.result = [statusCode |-> 0, html |-> << >>, functionError |-> TRUE]]

\* catch (err): the result is built from (err as Error).message, which
\* itself throws a TypeError when err is undefined or null.
Caught(r, thrown) == IF thrown = "error" THEN RenderFailed(r) ELSE Raised(r)

\* A faulty variant: without a template an empty document is rendered.
NoTemplateRendersEmpty(r) == [r EXCEPT !.pc = "puthtml", !.failure = "template"]

\* The two `return { statusCode: 500, ... }` of the fallback extraction.
NoTemplate(r) == Return([r EXCEPT !.failure = "template"], 500, << >>)

\* History: the paths for which an invocation has returned success.
RenderedAfter(r) ==
    IF r.pc = "returned" /\ r.result.statusCode = 200 THEN rendered \cup {r.event.uri}
    ELSE rendered

\* A faulty variant: the result of the read of the artifact key is ignored.
AfterReadsNoDedup(r) ==
    IF r.fallback.state = "fulfilled"
    THEN IF r.fallback.body = << >> THEN NoTemplate(r)
         ELSE LET html == SubstituteParams(r.fallback.body, r.event.params)
              IN IF HasRouteDef(r.event.routePattern)
                 THEN [r EXCEPT !.pc = "meta", !.html = html, !.metaCalls = @ + 1]
                 ELSE [r EXCEPT !.pc = "puthtml", !.html = html]
    ELSE NoTemplate(r)

\* A faulty variant: an invocation that finds another invocation at work
\* on the same path answers without rendering.
AfterReadsLocked(r) ==
    IF \E e \in Edges : /\ rend[e].event.uri = r.event.uri
                         /\ rend[e].pc \in {"meta", "puthtml", "puttxt", "segs"}
    THEN Return(r, 200, << >>)
    ELSE IF r.existing.state = "fulfilled" /\ r.existing.body # << >>
         THEN Return(r, 200, r.existing.body)
         ELSE IF r.fallback.state = "fulfilled"
              THEN IF r.fallback.body = << >> THEN NoTemplate(r)
                   ELSE LET html == SubstituteParams(r.fallback.body, r.event.params)
                        IN IF HasRouteDef(r.event.routePattern)
                           THEN [r EXCEPT !.pc = "meta", !.html = html, !.metaCalls = @ + 1]
                           ELSE [r EXCEPT !.pc = "puthtml", !.html = html]
              ELSE NoTemplate(r)

\* The handler once both GETs of Promise.allSettled have settled, up to its
\* next await.
AfterReads(r) ==
    IF r.existing.state = "fulfilled" /\ r.existing.body # << >>
    THEN Return(r, 200, r.existing.body)
    ELSE IF r.fallback.state = "fulfilled"
         THEN IF r.fallback.body = << >> THEN NoTemplate(r)
              ELSE LET html == SubstituteParams(r.fallback.body, r.event.params)
                   IN IF HasRouteDef(r.event.routePattern)
                      THEN [r EXCEPT !.pc = "meta", !.html = html, !.metaCalls = @ + 1]
                      ELSE [r EXCEPT !.pc = "puthtml", !.html = html]
         ELSE NoTemplate(r)

Settled(r) == r.existing.state # "pending" /\ r.fallback.state # "pending"

\* GetObjectCommand as Promise.allSettled sees it.
GetSettled(key) ==
    IF key \in DOMAIN store THEN [state |-> "fulfilled", body |-> store[key].body]
    ELSE [state |-> "rejected", body |-> << >>]

\* lambda.send(InvokeCommand): the renderer invocation starts with the
\* payload {uri: cleanUri, routePattern, params}; the edge handler waits.
RendStart(e) ==
    /\ edge[e].pc = "invoke"
    /\ EdgeAlive(e)
    /\ rend[e].pc = "off"
    /\ edge' = [edge EXCEPT ![e].pc = "wait"]
    /\ LET event == edge[e].payload
       IN rend' = [rend EXCEPT ![e] =
                     [OffRend EXCEPT !.pc = IF HasRouteDef(event.routePattern)
                                            THEN "validate" ELSE "read",
                                     !.event = event, !.start = now,
                                     !.atInvoke = GetSettled(deriveS3Key(event.uri))]]
    /\ UNCHANGED <<call, referencePageCache, store, manifestCache, routes, deploy, now, faults, requests, deploys,
                   rendered, removed, online, operator,
                   manifestSince>>

\* A faulty variant: the answer of the validation hook is not looked at.
RendValidateIgnored(e, outcome) ==
    /\ rend[e].pc = "validate"
    /\ RendAlive(e)
    /\ LET r == CASE outcome = "valid" -> [rend[e] EXCEPT !.pc = "read", !.isValid = "true"]
                  [] outcome = "invalid" -> [rend[e] EXCEPT !.pc = "read", !.isValid = "false"]
                  [] OTHER -> Caught([rend[e] EXCEPT !.failure = "validate"], outcome)
       IN rend' = [rend EXCEPT ![e] = r]
    /\ UNCHANGED <<call, referencePageCache, store, edge, manifestCache, routes, deploy, now, faults, requests,
                   deploys, rendered, removed, online, operator, manifestSince>>

\* routeDef.validate(params) answers: true (or no hook), false, or throws.
RendValidate(e, outcome) ==
    /\ rend[e].pc = "validate"
    /\ RendAlive(e)
    /\ LET r == CASE outcome = "valid" -> [rend[e] EXCEPT !.pc = "read", !.isValid = "true"]
                  [] outcome = "invalid" ->
                        Return([rend[e] EXCEPT !.isValid = "false"], 404, << >>)
                  [] OTHER -> Caught([rend[e] EXCEPT !.failure = "validate"], outcome)
       IN rend' = [rend EXCEPT ![e] = r]
    /\ UNCHANGED <<call, referencePageCache, store, edge, manifestCache, routes, deploy, now, faults, requests,
                   deploys, rendered, removed, online, operator,
                   manifestSince>>

\* The GET of the artifact key settles.
RendGetExisting(e) ==
    /\ rend[e].pc = "read"
    /\ RendAlive(e)
    /\ rend[e].existing.state = "pending"
    /\ LET r == [rend[e] EXCEPT !.existing = GetSettled(deriveS3Key(rend[e].event.uri))]
           r2 == IF Settled(r) THEN AfterReads(r) ELSE r
       IN rend' = [rend EXCEPT ![e] = r2] /\ rendered' = RenderedAfter(r2)
    /\ UNCHANGED <<call, referencePageCache, store, edge, manifestCache, routes, deploy, now, faults, requests,
                   deploys, removed, online, operator,
                   manifestSince>>

\* The GET of the artifact key is rejected with a store error.
RendGetExistingFault(e) ==
    /\ rend[e].pc = "read"
    /\ RendAlive(e)
    /\ rend[e].existing.state = "pending"
    /\ faults < MaxFaults
    /\ faults' = faults + 1
    /\ LET r == [rend[e] EXCEPT !.existing = Rejected, !.ioError = TRUE]
           r2 == IF Settled(r) THEN AfterReads(r) ELSE r
       IN rend' = [rend EXCEPT ![e] = r2] /\ rendered' = RenderedAfter(r2)
    /\ UNCHANGED <<call, referencePageCache, store, edge, manifestCache, routes, deploy, now, requests, deploys,
                   removed, online, operator,
                   manifestSince>>

\* The GET of the fallback key settles.
RendGetFallback(e) ==
    /\ rend[e].pc = "read"
    /\ RendAlive(e)
    /\ rend[e].fallback.state = "pending"
    /\ LET r == [rend[e] EXCEPT
                    !.fallback = GetSettled(deriveFallbackKey(rend[e].event.routePattern))]
           r2 == IF Settled(r) THEN AfterReads(r) ELSE r
       IN rend' = [rend EXCEPT ![e] = r2] /\ rendered' = RenderedAfter(r2)
    /\ UNCHANGED <<call, referencePageCache, store, edge, manifestCache, routes, deploy, now, faults, requests,
                   deploys, removed, online, operator,
                   manifestSince>>

\* The GET of the fallback key is rejected with a store error.
RendGetFallbackFault(e) ==
    /\ rend[e].pc = "read"
    /\ RendAlive(e)
    /\ rend[e].fallback.state = "pending"
    /\ faults < MaxFaults
    /\ faults' = faults + 1
    /\ LET r == [rend[e] EXCEPT !.fallback = Rejected, !.ioError = TRUE]
           r2 == IF Settled(r) THEN AfterReads(r) ELSE r
       IN rend' = [rend EXCEPT ![e] = r2] /\ rendered' = RenderedAfter(r2)
    /\ UNCHANGED <<call, referencePageCache, store, edge, manifestCache, routes, deploy, now, requests, deploys,
                   removed, online, operator,
                   manifestSince>>

\* metadataFn(params) answers with the page's metadata, which is patched
\* into the document.
RendMeta(e, title) ==
    /\ rend[e].pc = "meta"
    /\ RendAlive(e)
    /\ LET metadata == [kind |-> "value", title |-> title]
       IN rend' = [rend EXCEPT ![e].pc = "puthtml", ![e].metadata = metadata,
                               ![e].html = patchMetadata(@, metadata)]
    /\ UNCHANGED <<call, referencePageCache, store, edge, manifestCache, routes, deploy, now, faults, requests,
                   deploys, rendered, removed, online, operator,
                   manifestSince>>

\* metadataFn(params) answers null (the page does not exist): the document
\* is left as substituted and the handler goes on to the upload.
RendMetaNull(e) ==
    /\ rend[e].pc = "meta"
    /\ RendAlive(e)
    /\ rend' = [rend EXCEPT ![e].pc = "puthtml",
                            ![e].metadata = [kind |-> "null", title |-> << >>]]
    /\ UNCHANGED <<call, referencePageCache, store, edge, manifestCache, routes, deploy, now, faults, requests,
                   deploys, rendered, removed, online, operator,
                   manifestSince>>

\* metadataFn(params) throws or rejects.
RendMetaThrow(e, thrown) ==
    /\ rend[e].pc = "meta"
    /\ RendAlive(e)
    /\ rend' = [rend EXCEPT ![e] = Caught([rend[e] EXCEPT !.failure = "generator"], thrown)]
    /\ UNCHANGED <<call, referencePageCache, store, edge, manifestCache, routes, deploy, now, faults, requests,
                   deploys, rendered, removed, online, operator,
                   manifestSince>>

\* 5. Upload HTML to S3.
RendPutHtml(e) ==
    /\ rend[e].pc = "puthtml"
    /\ RendAlive(e)
    /\ LET s3Key == deriveS3Key(rend[e].event.uri)
           rscData == extractRscFlightData(rend[e].html)
       IN /\ store' = PutObject(store, s3Key, TextObj(rend[e].html))
          /\ rend' = [rend EXCEPT ![e].wrote = @ \cup {s3Key},
                                  ![e].pc = IF rscData.found /\ rscData.data # << >>
                                            THEN "puttxt" ELSE "segs"]
          /\ removed' = removed \ {s3Key}
    /\ UNCHANGED <<call, referencePageCache, edge, manifestCache, routes, deploy, now, faults, requests, deploys,
                   rendered, online, operator,
                   manifestSince>>

\* The upload of the HTML fails: the catch block answers 500.
RendPutHtmlFault(e) ==
    /\ rend[e].pc = "puthtml"
    /\ RendAlive(e)
    /\ faults < MaxFaults
    /\ faults' = faults + 1
    /\ rend' = [rend EXCEPT ![e] = RenderFailed([rend[e] EXCEPT !.ioError = TRUE,
                                                               !.failure = "store"])]
    /\ UNCHANGED <<call, referencePageCache, store, edge, manifestCache, routes, deploy, now, requests, deploys,
                   rendered, removed, online, operator,
                   manifestSince>>

\* 6. Upload of the .txt sibling (the navigation payload).
RendPutTxt(e) ==
    /\ rend[e].pc = "puttxt"
    /\ RendAlive(e)
    /\ LET txtKey == TxtKey(deriveS3Key(rend[e].event.uri))
           rscData == extractRscFlightData(rend[e].html)
       IN /\ store' = PutObject(store, txtKey, TextObj(rscData.data))
          /\ rend' = [rend EXCEPT ![e].wrote = @ \cup {txtKey}, ![e].pc = "segs"]
    /\ UNCHANGED <<call, referencePageCache, edge, manifestCache, routes, deploy, now, faults, requests, deploys,
                   rendered, removed, online, operator,
                   manifestSince>>

\* The upload of the .txt sibling fails: the catch block answers 500.
RendPutTxtFault(e) ==
    /\ rend[e].pc = "puttxt"
    /\ RendAlive(e)
    /\ faults < MaxFaults
    /\ faults' = faults + 1
    /\ rend' = [rend EXCEPT ![e] = RenderFailed([rend[e] EXCEPT !.ioError = TRUE,
                                                               !.failure = "store"])]
    /\ UNCHANGED <<call, referencePageCache, store, edge, manifestCache, routes, deploy, now, requests, deploys,
                   rendered, removed, online, operator,
                   manifestSince>>

\* parts.slice(0, -1).join('/') of the path without its leading slash.
RoutePrefix(uri) ==
    LET parts == Split(StripTrailingSlash(StripLeadingSlash(uri)), "/")
    IN Join(Take(parts, Len(parts) - 1), <<"/">>)

\* findReferenceSegmentDir over the instance's cache and what the listing
\* answers (listed = FALSE: the listing threw): the directory it returns
\* (<< >> for null) and the cache afterwards.  A cached entry, a null one
\* included, is returned without a listing; after the listing the directory
\* of the first tree file is cached, or null when there is none or the
\* listing threw.  The builds here hold at most one page with segment
\* files under a prefix, so the first in key order is the only one.
findReferenceSegmentDir(cache, st, routePrefix, listed) ==
    LET cached == { c \in cache : c.routePrefix = routePrefix }
        treeKeys == { k \in DOMAIN st : /\ StartsWith(k, routePrefix \o <<"/">>)
                                        /\ EndsWith(k, <<"/">> \o SegmentFile("tree")) }
        dirs == IF listed THEN { Take(key, Len(key) - Len(SegmentFile("tree"))) : key \in treeKeys }
                ELSE {}
        dir == IF dirs = {} THEN << >> ELSE CHOOSE d \in dirs : TRUE
    IN IF cached # {}
       THEN [dir |-> (CHOOSE c \in cached : TRUE).dir, cache |-> cache, listing |-> FALSE]
       ELSE [dir |-> dir, cache |-> cache \cup {[routePrefix |-> routePrefix, dir |-> dir]},
             listing |-> TRUE]

\* 7. generateSegmentFiles up to `if (!refDir) return`: without a reference
\* directory nothing is generated and the handler answers 200; with one the
\* handler goes on to the segment files.
RendSegments(e) ==
    /\ rend[e].pc = "segs"
    /\ RendAlive(e)
    /\ LET found == findReferenceSegmentDir(referencePageCache[e], store,
                                            RoutePrefix(rend[e].event.uri), TRUE)
           r == IF found.dir = << >> THEN Return(rend[e], 200, rend[e].html)
                ELSE [rend[e] EXCEPT !.pc = "segput", !.refDir = found.dir]
       IN /\ rend' = [rend EXCEPT ![e] = r]
          /\ rendered' = RenderedAfter(r)
          /\ referencePageCache' = [referencePageCache EXCEPT ![e] = found.cache]
    /\ UNCHANGED <<call, store, edge, manifestCache, routes, deploy, now, faults, requests,
                   deploys, removed, online, operator,
                   manifestSince>>

\* The listing of findReferenceSegmentDir throws: the catch swallows the
\* error, null is cached for the prefix and the handler answers 200.
RendSegmentsFault(e) ==
    /\ rend[e].pc = "segs"
    /\ RendAlive(e)
    /\ faults < MaxFaults
    /\ LET found == findReferenceSegmentDir(referencePageCache[e], store,
                                            RoutePrefix(rend[e].event.uri), FALSE)
           r == Return(rend[e], 200, rend[e].html)
       IN /\ found.listing
          /\ faults' = faults + 1
          /\ rend' = [rend EXCEPT ![e] = r]
          /\ rendered' = RenderedAfter(r)
          /\ referencePageCache' = [referencePageCache EXCEPT ![e] = found.cache]
    /\ UNCHANGED <<call, store, edge, manifestCache, routes, deploy, now, requests,
                   deploys, removed, online, operator,
                   manifestSince>>

\* patchTreeSegment: the paramKey of each parameter gets its value.
RECURSIVE patchTreeSegment(_, _)
patchTreeSegment(template, params) ==
    IF params = << >> THEN template
    ELSE LET hd == <<"name:">> \o Head(params).name \o <<"paramKey:">>
             i == IndexOf(template, hd)
             rest == Drop(template, i + Len(hd) - 1)
             j == IndexOf(rest, <<";">>)
             patched == IF i = 0 \/ j = 0 THEN template
                        ELSE Take(template, i + Len(hd) - 1) \o Head(params).value
                             \o Drop(rest, j - 1)
         IN patchTreeSegment(patched, Tail(params))

\* generateSegmentFiles from the listing of the reference directory to the
\* uploads: the reference files are read, each segment file is generated
\* and uploaded under `${cleanUri}/`, then the handler answers 200.  _tree
\* is patched with the parameters, _head rebuilt around the metadata (the
\* title, JSON-escaped), _full is the payload of the rendered document; a
\* file with no content (no template, null metadata, no payload) is not
\* uploaded.  (The reference files are build output: only a deploy changes
\* them.)
RendSegmentsPut(e) ==
    /\ rend[e].pc = "segput"
    /\ RendAlive(e)
    /\ LET refDir == rend[e].refDir
           segmentDir == StripTrailingSlash(StripLeadingSlash(rend[e].event.uri)) \o <<"/">>
           rscData == extractRscFlightData(rend[e].html)
           metadata == rend[e].metadata
           fileNames == { name \in {SegmentFile("tree"), SegmentFile("head"), SegmentFile("full")} :
                            refDir \o name \in DOMAIN store }
           template(name) == store[refDir \o name].body
           escapeJson(str) == [i \in 1..Len(str) |->
                                 EscapeLexeme(str[i], {<<"\\", "\\\\">>, <<"\"", "\\\"">>})]
           content(name) ==
               CASE name = SegmentFile("tree") -> patchTreeSegment(template(name), rend[e].event.params)
                 [] name = SegmentFile("head") ->
                       IF metadata.kind = "value" /\ template(name) # << >>
                       THEN ReplaceRegion(template(name), "Next.Metadata[", "]",
                                          escapeJson(metadata.title))
                       ELSE << >>
                 [] OTHER -> IF rscData.found THEN rscData.data ELSE << >>
           keys == { segmentDir \o name : name \in { n \in fileNames : content(n) # << >> } }
           r == Return([rend[e] EXCEPT !.wrote = @ \cup keys], 200, rend[e].html)
       IN /\ store' = [k \in DOMAIN store \cup keys |->
                         IF k \in keys
                         THEN TextObj(content(Drop(k, Len(segmentDir))))
                         ELSE store[k]]
          /\ rend' = [rend EXCEPT ![e] = r]
          /\ rendered' = RenderedAfter(r)
    /\ UNCHANGED <<call, referencePageCache, edge, manifestCache, routes, deploy, now, faults,
                   requests, deploys, removed, online, operator, manifestSince>>

\* The platform stops a renderer invocation that has used up its timeout:
\* the caller gets a function error.
RendKill(e) ==
    /\ RendRunning(e)
    /\ ~RendAlive(e)
    /\ rend' = [rend EXCEPT ![e].pc = "timedout",
                            ![e].result = [statusCode |-> 0, html |-> << >>,
                                           functionError |-> TRUE]]
    /\ UNCHANGED <<call, referencePageCache, store, edge, manifestCache, routes, deploy, now, faults, requests,
                   deploys, rendered, removed, online, operator,
                   manifestSince>>

\* Time passes while a metadata generator is being waited for.  A handler
\* whose renderer call has answered resumes at once: no time passes first.
Tick ==
    /\ now < MaxTicks * EDGE_TIMEOUT
    /\ \E e \in Edges : rend[e].pc = "meta"
    /\ \A e \in Edges : ~(edge[e].pc = "wait" /\ rend[e].pc \in {"returned", "timedout"})
    /\ now' = now + EDGE_TIMEOUT
    /\ UNCHANGED <<call, referencePageCache, store, edge, manifestCache, rend, routes, deploy, faults, requests,
                   deploys, rendered, removed, online, operator,
                   manifestSince>>

\* Time passes between two requests, while no handler runs and some
\* location holds a cached manifest: up to just before the expiry of an
\* entry cached at the start, or up to it.
Elapse(seconds) ==
    /\ now < MaxElapses * (MANIFEST_CACHE_TTL - EDGE_TIMEOUT)
    /\ requests < MaxRequests
    /\ \A e \in Edges : EdgeFree(e)
    /\ \E e \in Edges : manifestCache[e].data.ok
    /\ now' = now + seconds
    /\ UNCHANGED <<call, referencePageCache, store, edge, manifestCache, rend, routes, deploy, faults, requests,
                   deploys, rendered, removed, online, operator, manifestSince>>

(***************************************************************************)
(* qlara deploy                                                            *)
(***************************************************************************)
\* generateFallbacks on the build directory, then syncToS3 begins.
DeployStart(routeFile) ==
    /\ operator
    /\ deploy.pc = "idle"
    /\ deploys < MaxDeploys
    /\ deploys' = deploys + 1
    /\ deploy' = [IdleDeploy EXCEPT !.pc = "upload", !.routeFile = routeFile,
                                    !.build = generateFallbacks(BuildOutput(routeFile),
                                                                routeFile)]
    /\ UNCHANGED <<call, referencePageCache, store, edge, manifestCache, rend, routes, now, faults, requests,
                   rendered, removed, online, operator,
                   manifestSince>>

\* syncToS3: the next file of the build directory is uploaded.
DeployUpload ==
    /\ deploy.pc = "upload"
    /\ LET files == listFiles(deploy.build)
           key == files[deploy.next]
       IN /\ store' = PutObject(store, key, deploy.build[key])
          /\ deploy' = [deploy EXCEPT !.next = @ + 1,
                                      !.pc = IF deploy.next = Len(files) THEN "list"
                                             ELSE "upload"]
          /\ manifestSince' = IF key = MANIFEST_KEY THEN now ELSE manifestSince
    /\ UNCHANGED <<call, referencePageCache, edge, manifestCache, rend, routes, now, faults, requests, deploys,
                   rendered, removed, online, operator>>

\* A faulty variant: every listed key is taken for stale.
DeployListAll ==
    /\ deploy.pc = "list"
    /\ deploy' = [deploy EXCEPT !.stale = DOMAIN store, !.pc = "delete"]
    /\ UNCHANGED <<call, referencePageCache, store, edge, manifestCache, rend, routes, now, faults, requests,
                   deploys, rendered, removed, online, operator,
                   manifestSince>>

\* syncToS3: listAllKeys, staleKeys = the keys that are not in the build.
DeployList ==
    /\ deploy.pc = "list"
    /\ LET staleKeys == (DOMAIN store) \ (DOMAIN deploy.build)
       IN deploy' = [deploy EXCEPT !.stale = staleKeys,
                                   !.pc = IF staleKeys = {} THEN "renderer" ELSE "delete"]
    /\ UNCHANGED <<call, referencePageCache, store, edge, manifestCache, rend, routes, now, faults, requests,
                   deploys, rendered, removed, online, operator,
                   manifestSince>>

\* syncToS3: DeleteObjects of the stale keys.
DeployDelete ==
    /\ deploy.pc = "delete"
    /\ store' = DeleteObjects(store, deploy.stale)
    /\ removed' = removed \cup deploy.stale
    /\ deploy' = [deploy EXCEPT !.pc = "renderer"]
    /\ UNCHANGED <<call, referencePageCache, edge, manifestCache, rend, routes, now, faults, requests, deploys,
                   rendered, online, operator,
                   manifestSince>>

\* The renderer bundle with the new route file is deployed.
DeployRenderer ==
    /\ deploy.pc = "renderer"
    /\ routes' = deploy.routeFile
    /\ deploy' = IdleDeploy
    /\ UNCHANGED <<call, referencePageCache, store, edge, manifestCache, rend, now, faults, requests, deploys,
                   rendered, removed, online, operator,
                   manifestSince>>

(***************************************************************************)
(* Specification                                                           *)
(***************************************************************************)
Next ==
    \/ \E e \in Edges, raw \in RawUris : EdgeStart(e, raw)
    \/ \E e \in Edges : EdgeHead(e)
    \/ \E e \in Edges : EdgeHeadFault(e)
    \/ \E e \in Edges : EdgeManifest(e)
    \/ \E e \in Edges : EdgeManifestFault(e)
    \/ \E e \in Edges : EdgeInvokeFault(e)
    \/ \E e \in Edges : RendStart(e)
    \/ \E e \in Edges : EdgeResume(e)
    \/ \E e \in Edges : EdgeKill(e)
    \/ \E e \in Edges, outcome \in {"valid", "invalid"} \cup Thrown : RendValidate(e, outcome)
    \/ \E e \in Edges : RendGetExisting(e)
    \/ \E e \in Edges : RendGetExistingFault(e)
    \/ \E e \in Edges : RendGetFallback(e)
    \/ \E e \in Edges : RendGetFallbackFault(e)
    \/ \E e \in Edges, title \in Titles : RendMeta(e, title)
    \/ \E e \in Edges : RendMetaNull(e)
    \/ \E e \in Edges, thrown \in Thrown : RendMetaThrow(e, thrown)
    \/ \E e \in Edges : RendPutHtml(e)
    \/ \E e \in Edges : RendPutHtmlFault(e)
    \/ \E e \in Edges : RendPutTxt(e)
    \/ \E e \in Edges : RendPutTxtFault(e)
    \/ \E e \in Edges : RendSegments(e)
    \/ \E e \in Edges : RendKill(e)
    \/ Tick
    \/ \E seconds \in {MANIFEST_CACHE_TTL - EDGE_TIMEOUT, MANIFEST_CACHE_TTL} : Elapse(seconds)
    \/ \E routeFile \in RouteFiles : DeployStart(routeFile)
    \/ DeployUpload
    \/ DeployList
    \/ DeployDelete
    \/ DeployRenderer

Spec == Init /\ [][Next]_vars

(***************************************************************************)
(* The renderer on a site with one two-parameter route                     *)
(***************************************************************************)
\* The names a route's parameters may have.
ParamNames == { <<"i">>, <<"v">>, <<"i", "_">> }

\* '/p/:a/:b'
TwoParamRoute(a, b) == <<"/", "p", "/", ":">> \o a \o <<"/", ":">> \o b

\* out/ of a site with that route and one pre-built page, /p/1/2.
BuildOutputOf(pattern) ==
    LET names == extractParamNames(pattern)
    IN (K_page12 :> TextObj(Page(<<"T12">>, <<[name |-> names[1], value |-> <<"1">>],
                                              [name |-> names[2], value |-> <<"2">>]>>)))
       @@ (MANIFEST_KEY :> ManifestObj(buildManifest(<<pattern>>)))

\* The site is deployed and a handler, having found no document for the
\* request and read the manifest, is about to invoke the renderer.
SubstInit ==
    \E a \in ParamNames, b \in ParamNames, x \in {"4", "7"}, y \in {"4", "7"} :
        LET pattern == TwoParamRoute(a, b)
            build == generateFallbacks(BuildOutputOf(pattern), <<pattern>>)
            manifest == ParsedManifest(build[MANIFEST_KEY])
            ed == [IdleEdge EXCEPT !.uri = cfFunctionRewrite(<<"/", "p", "/", x, "/", y>>),
                                   !.got = "store"]
        IN /\ a # b
           /\ store = build
           /\ routes = <<pattern>>
           /\ edge = [e \in Edges |-> IF e = "e1" THEN EdgeLookup(ed, manifest) ELSE IdleEdge]
           /\ manifestCache = [e \in Edges |->
                                 IF e = "e1"
                                 THEN [data |-> manifest, expiry |-> MANIFEST_CACHE_TTL]
                                 ELSE EmptyCache]
    /\ rend = [e \in Edges |-> OffRend]
    /\ deploy = IdleDeploy
    /\ now = 0
    /\ faults = 0
    /\ requests = 1
    /\ deploys = 0
    /\ online = {"e1"}
    /\ operator = FALSE
    /\ rendered = {}
    /\ removed = {}
    /\ manifestSince = 0
    /\ referencePageCache = [e \in Edges |-> {}]
    /\ call = NoCall

SubstNext ==
    \/ \E e \in Edges : RendStart(e)
    \/ \E e \in Edges : RendValidate(e, "valid")
    \/ \E e \in Edges : RendGetExisting(e)
    \/ \E e \in Edges : RendGetFallback(e)
    \/ \E e \in Edges, title \in Titles : RendMeta(e, title)
    \/ \E e \in Edges : RendPutHtml(e)
    \/ \E e \in Edges : RendPutTxt(e)
    \/ \E e \in Edges : RendSegments(e)
    \/ \E e \in Edges : EdgeResume(e)

SubstSpec == SubstInit /\ [][SubstNext]_vars

(***************************************************************************)
(* A site built with a segment cache and serving traffic, no deploy in     *)
(* progress: the page p/1 has its per-segment files next to it.  The       *)
(* manifest in the store is the one of the build, or an object that parses *)
(* but is no manifest: one without a route list, one whose regex does not  *)
(* compile.                                                                *)
(***************************************************************************)
SegInit ==
    /\ \E manifestObj \in
            { ManifestObj(buildManifest(<<P1>>)),
              [type |-> "json", body |-> <<"{", "}">>, routes |-> << >>],
              ManifestObj([routes |-> <<[ManifestRouteOf(P1) EXCEPT
                                           !.regex = <<[k |-> "open", c |-> "("]>> \o @]>>]) } :
         LET page == Page(<<"T1">>, <<Param("i", "1")>>)
             refDir == <<"p", "/", "1", "/">>
             segments ==
                 (refDir \o SegmentFile("tree") :> TextObj(<<"name:", "i", "paramKey:", "1", ";">>))
                 @@ (refDir \o SegmentFile("head") :> TextObj(<<"0:", "Next.Metadata[", "T1", "]">>))
                 @@ (refDir \o SegmentFile("full") :> TextObj(extractRscFlightData(page).data))
         IN store = (MANIFEST_KEY :> manifestObj) @@ segments
                    @@ generateFallbacks(BuildOutput(<<P1>>), <<P1>>)
    /\ routes = <<P1>>
    /\ edge = [e \in Edges |-> IdleEdge]
    /\ manifestCache = [e \in Edges |-> EmptyCache]
    /\ rend = [e \in Edges |-> OffRend]
    /\ deploy = IdleDeploy
    /\ now = 0
    /\ faults = 0
    /\ requests = 0
    /\ deploys = 0
    /\ online = Edges
    /\ operator = FALSE
    /\ rendered = {}
    /\ removed = {}
    /\ manifestSince = 0
    /\ referencePageCache = [e \in Edges |-> {}]
    /\ call = NoCall

\* The paths viewers ask for: two pages of the route /p/:i, a page whose
\* parameter value holds a dot, a page asked for with a trailing slash.
SegRawUris == { <<"/", "p", "/", "4">>, <<"/", "p", "/", "7">>,
                <<"/", "p", "/", "4", ".", "7">>, <<"/", "p", "/", "4", "/">> }

SegNext ==
    \/ \E e \in Edges, raw \in SegRawUris : EdgeStart(e, raw)
    \/ \E e \in Edges : EdgeHead(e)
    \/ \E e \in Edges : EdgeManifest(e)
    \/ \E e \in Edges : RendStart(e)
    \/ \E e \in Edges : EdgeResume(e)
    \/ \E e \in Edges : RendValidate(e, "valid")
    \/ \E e \in Edges : RendGetExisting(e)
    \/ \E e \in Edges : RendGetFallback(e)
    \/ \E e \in Edges, title \in Titles : RendMeta(e, title)
    \/ \E e \in Edges : RendPutHtml(e)
    \/ \E e \in Edges : RendPutTxt(e)
    \/ \E e \in Edges : RendSegments(e)
    \/ \E e \in Edges : RendSegmentsFault(e)
    \/ \E e \in Edges : RendSegmentsPut(e)

SegSpec == SegInit /\ [][SegNext]_vars

(***************************************************************************)
(* One request that reaches the renderer                                   *)
(***************************************************************************)
\* The site is deployed.  A handler got no document from its HEAD request
\* (there is none, or the request was answered with a store error), has
\* read the manifest and is about to invoke the renderer or forward.
RenderInit ==
    /\ \E rf \in RouteFiles, raw \in RawUris :
         LET build == generateFallbacks(BuildOutput(rf), rf)
             manifest == ParsedManifest(build[MANIFEST_KEY])
             ed == [IdleEdge EXCEPT !.uri = cfFunctionRewrite(raw), !.got = "store"]
         IN /\ store = build
            /\ routes = rf
            /\ edge = [e \in Edges |-> IF e = "e1" THEN EdgeLookup(ed, manifest) ELSE IdleEdge]
            /\ manifestCache = [e \in Edges |->
                                  IF e = "e1"
                                  THEN [data |-> manifest, expiry |-> MANIFEST_CACHE_TTL]
                                  ELSE EmptyCache]
    /\ rend = [e \in Edges |-> OffRend]
    /\ deploy = IdleDeploy
    /\ now = 0
    /\ faults = 0
    /\ requests = 1
    /\ deploys = 0
    /\ online = {"e1"}
    /\ operator = FALSE
    /\ rendered = {}
    /\ removed = {}
    /\ manifestSince = 0
    /\ referencePageCache = [e \in Edges |-> {}]
    /\ call = NoCall

RenderNext ==
    \/ \E e \in Edges : RendStart(e)
    \/ \E e \in Edges, outcome \in {"valid", "invalid"} : RendValidate(e, outcome)
    \/ \E e \in Edges : RendGetExisting(e)
    \/ \E e \in Edges : RendGetExistingFault(e)
    \/ \E e \in Edges : RendGetFallback(e)
    \/ \E e \in Edges : RendGetFallbackFault(e)
    \/ \E e \in Edges, title \in Titles : RendMeta(e, title)
    \/ \E e \in Edges : RendMetaNull(e)
    \/ \E e \in Edges : RendPutHtml(e)
    \/ \E e \in Edges : RendPutTxt(e)
    \/ \E e \in Edges : RendSegments(e)
    \/ \E e \in Edges : EdgeResume(e)

RenderSpec == RenderInit /\ [][RenderNext]_vars

(***************************************************************************)
(* A deploy of a site that nobody requests                                 *)
(***************************************************************************)
\* Pages rendered since the previous deploy.
StaleKeys ==
    { <<"p", "/", "4", ".", "html">>, <<"p", "/", "7", ".", "html">>,
      <<"p", "/", "4", "/", "7", ".", "html">> }

\* The bucket holds the previous deploy and some rendered pages; the
\* operator is about to deploy and no edge location is serving.
SyncInit ==
    /\ \E rf \in RouteFiles, pages \in SUBSET StaleKeys :
         /\ store = [k \in pages |-> TextObj(<<"rendered">>)]
                     @@ generateFallbacks(BuildOutput(rf), rf)
         /\ routes = rf
    /\ edge = [e \in Edges |-> IdleEdge]
    /\ manifestCache = [e \in Edges |-> EmptyCache]
    /\ rend = [e \in Edges |-> OffRend]
    /\ deploy = IdleDeploy
    /\ now = 0
    /\ faults = 0
    /\ requests = 0
    /\ deploys = 0
    /\ online = {}
    /\ operator = TRUE
    /\ rendered = {}
    /\ removed = {}
    /\ manifestSince = 0
    /\ referencePageCache = [e \in Edges |-> {}]
    /\ call = NoCall

SyncNext ==
    \/ \E routeFile \in RouteFiles : DeployStart(routeFile)
    \/ DeployUpload
    \/ DeployList
    \/ DeployDelete
    \/ DeployRenderer

SyncSpec == SyncInit /\ [][SyncNext]_vars

(***************************************************************************)
(* The library functions, called on their own                              *)
(***************************************************************************)
\* A faulty variant of the origin-response handler: the bypass flag is
\* looked at only when the route does not match.
handleEdgeResponseLate(uri, querystring, status, indexHtml, manifest, renderedHtml) ==
    LET match == IF manifest.ok THEN matchRoute(uri, manifest.routes) ELSE NoRouteMatch
        out == [action |-> "pass-through", html |-> << >>, rendererInvoked |-> FALSE,
                manifestRead |-> FALSE]
    IN IF status # 403 /\ status # 404 THEN out
       ELSE IF match.found /\ renderedHtml # << >>
            THEN [out EXCEPT !.action = "serve-html", !.html = renderedHtml,
                             !.rendererInvoked = TRUE, !.manifestRead = TRUE]
            ELSE IF indexHtml = << >>
                 THEN [out EXCEPT !.rendererInvoked = match.found, !.manifestRead = TRUE]
                 ELSE [out EXCEPT !.action = "serve-html", !.html = indexHtml,
                                  !.rendererInvoked = match.found, !.manifestRead = TRUE]

\* The handler of the response-trigger design for one origin response:
\* what it returns, whether it invoked the renderer and whether it read
\* the manifest.  indexHtml is what getIndexHtml answers (<< >> for null),
\* manifest what getManifest answers, renderedHtml what invokeRenderer
\* would answer (<< >> for null).
handleEdgeResponse(uri, querystring, status, indexHtml, manifest, renderedHtml) ==
    LET isBypass == Includes(querystring, <<"__clara_bypass">>)
        match == IF manifest.ok THEN matchRoute(uri, manifest.routes) ELSE NoRouteMatch
        out == [action |-> "pass-through", html |-> << >>, rendererInvoked |-> FALSE,
                manifestRead |-> FALSE]
    IN IF status # 403 /\ status # 404 THEN out
       ELSE IF isBypass
            THEN IF indexHtml = << >> THEN out
                 ELSE [out EXCEPT !.action = "serve-html", !.html = indexHtml]
            ELSE IF match.found /\ renderedHtml # << >>
                 THEN [out EXCEPT !.action = "serve-html", !.html = renderedHtml,
                                  !.rendererInvoked = TRUE, !.manifestRead = TRUE]
                 ELSE IF indexHtml = << >>
                      THEN [out EXCEPT !.rendererInvoked = match.found, !.manifestRead = TRUE]
                      ELSE [out EXCEPT !.action = "serve-html", !.html = indexHtml,
                                       !.rendererInvoked = match.found, !.manifestRead = TRUE]

\* One origin response handled by the response-trigger handler.
ResponseCall(uri, querystring, status, indexHtml, manifest, renderedHtml) ==
    LET out == handleEdgeResponse(uri, querystring, status, indexHtml, manifest, renderedHtml)
    IN /\ call = NoCall
       /\ call' = [NoCall EXCEPT !.fn = "handleEdgeResponse", !.url = uri,
                                  !.url2 = querystring, !.status = status,
                                  !.manifest = manifest, !.doc = out.html,
                                  !.action = out.action,
                                  !.rendererInvoked = out.rendererInvoked,
                                  !.manifestRead = out.manifestRead]
       /\ UNCHANGED siteVars

escapeAttr(str) ==
    [i \in 1..Len(str) |->
        EscapeLexeme(str[i], {<<"&", "&amp;">>, <<"\"", "&quot;">>, <<"<", "&lt;">>,
                              <<">", "&gt;">>})]

\* The tags of metadataToHtml for a metadata value with the fields
\* description, manifest and openGraph.title (<< >> when not set).  A tag
\* string is written as the record of its element, its naming attribute
\* and the attribute values as they stand in the string.
metadataToHtml(metadata) ==
    LET meta(name, content) ==
            [el |-> "meta", attr |-> "name", key |-> name, content |-> escapeAttr(content)]
        prop(property, content) ==
            [el |-> "meta", attr |-> "property", key |-> property,
             content |-> escapeAttr(content)]
        link(rel, href) ==
            [el |-> "link", attr |-> "rel", key |-> rel, content |-> escapeAttr(href)]
    IN (IF metadata.description # << >>
        THEN <<meta("description", metadata.description)>> ELSE << >>)
       \o (IF metadata.manifest # << >>
           THEN <<link("manifest", metadata.manifest)>> ELSE << >>)
       \o (IF metadata.ogTitle # << >>
           THEN <<prop("og:title", metadata.ogTitle)>> ELSE << >>)

\* The entries of metadataToRscEntries for the same metadata value: the
\* title element first, then one element per entry.
metadataToRscEntries(metadata) ==
    LET rscMeta(attrName, attrValue, content) ==
            [el |-> "meta", attr |-> attrName, key |-> attrValue,
             content |-> escapeRsc(content)]
    IN <<[el |-> "title", attr |-> "children", key |-> "children",
          content |-> escapeRsc(metadata.title)]>>
       \o (IF metadata.description # << >>
           THEN <<rscMeta("name", "description", metadata.description)>> ELSE << >>)
       \o (IF metadata.ogTitle # << >>
           THEN <<rscMeta("property", "og:title", metadata.ogTitle)>> ELSE << >>)

\* patchMetadata, steps 3 and 4: the tags for the head and the entries
\* for the payload of one metadata value.
MetadataCall(metadata) ==
    /\ call = NoCall
    /\ call' = [NoCall EXCEPT !.fn = "patchMetadata", !.params = <<metadata>>,
                               !.doc = metadataToHtml(metadata),
                               !.doc2 = metadataToRscEntries(metadata)]
    /\ UNCHANGED siteVars

\* validateConfig(config, routes) of a config with routeFile and provider:
\* TRUE when it returns, FALSE when it throws.
validateConfig(routeList) ==
    /\ Len(routeList) # 0
    /\ \A k \in 1..Len(routeList) :
          /\ routeList[k] # << >>
          /\ StartsWith(routeList[k], <<"/">>)
          /\ Includes(routeList[k], <<":">>)

\* Route patterns an integrator may write.
LibPatterns ==
    { P1, P2, P0,
      <<"/", "p", "/", ":", "v">>,
      <<"/", ":", "i", "/", ":", "v">>,
      <<"/", "p", "/", ":", "i", "/", ":", "i">> }

\* Route files of one or two patterns.
LibRouteFiles ==
    { <<a>> : a \in LibPatterns }
    \cup { <<a, b>> : a \in LibPatterns, b \in LibPatterns }

\* URLs: paths with missing, extra and mismatched segments, a trailing
\* slash, a query string, a percent-encoded segment.
LibUrls ==
    { <<"/">>, <<"/", "p">>, <<"/", "q">>, <<"/", "p", "/", "4">>, <<"/", "q", "/", "4">>,
      <<"/", "p", "/", "4", "/">>, <<"/", "p", "/", "4", "?", "x", "/", "7">>,
      <<"/", "p", "/", "a%20b">>, <<"/", "p", "/", "4", "/", "7">>,
      <<"/", "p", "/", "4", "/", "7", "/", "1">> }

\* matchRoute(url, buildManifest(routes).routes)
MatchRouteCall(url, patterns) ==
    /\ call = NoCall
    /\ call' = [NoCall EXCEPT !.fn = "matchRoute", !.url = url, !.patterns = patterns,
                               !.manifest = buildManifest(patterns),
                               !.match = matchRoute(url, buildManifest(patterns).routes)]
    /\ UNCHANGED siteVars

\* Values a parameter may take: a path segment is any text without "/",
\* the text of a placeholder included.
LibValues == { <<"4">>, <<"7">>, paramPlaceholder(<<"v">>) }

\* The renderer's substitution loop run over the fallback template of the
\* route /p/:a/:b, once in the order of params and once in the opposite
\* order.
SubstituteCall(a, b, x, y) ==
    LET pattern == TwoParamRoute(a, b)
        build == generateFallbacks(BuildOutputOf(pattern), <<pattern>>)
        params == <<[name |-> a, value |-> x], [name |-> b, value |-> y]>>
    IN /\ call = NoCall
       /\ a # b
       /\ call' = [NoCall EXCEPT !.fn = "substitute", !.patterns = <<pattern>>,
                                  !.params = params,
                                  !.doc = SubstituteParams(build[deriveFallbackKey(pattern)].body,
                                                           params),
                                  !.doc2 = SubstituteParams(build[deriveFallbackKey(pattern)].body,
                                                            <<params[2], params[1]>>)]
       /\ UNCHANGED siteVars

\* Paths handed to the key derivation.
LibPaths ==
    { << >>, <<"/">>, <<"/", "index">>, <<"/", "p">>, <<"/", "p", "/", "4">>,
      <<"p", "/", "4">>, <<"/", "p", "/", "4", "/">>, <<"/", "p", "/", "4", ".", "html">>,
      <<"/", "p", "/", "7">>, <<"/", "p", "/", "4", "/", "7">> }

\* deriveS3Key of two paths.
DeriveKeysCall(path, path2) ==
    /\ call = NoCall
    /\ call' = [NoCall EXCEPT !.fn = "deriveS3Key", !.url = path, !.url2 = path2,
                               !.key = deriveS3Key(path), !.key2 = deriveS3Key(path2)]
    /\ UNCHANGED siteVars

\* The viewer-request rewrite of a request path next to the key the
\* renderer derives for the same path.
RewriteCall(path) ==
    /\ call = NoCall
    /\ call' = [NoCall EXCEPT !.fn = "rewrite", !.url = path,
                               !.url2 = cfFunctionRewrite(path), !.key = deriveS3Key(path)]
    /\ UNCHANGED siteVars

\* The key deploy writes the template of a pattern under, next to the key
\* the renderer reads it from.
FallbackKeyCall(pattern) ==
    /\ call = NoCall
    /\ call' = [NoCall EXCEPT !.fn = "fallbackKey", !.patterns = <<pattern>>,
                               !.key = fallbackRelativePath(pattern),
                               !.key2 = deriveFallbackKey(pattern)]
    /\ UNCHANGED siteVars

\* The plugin validates the routes and, when validation returns, builds
\* the manifest from them.
ValidateCall(routeList) ==
    /\ call = NoCall
    /\ call' = [NoCall EXCEPT !.fn = "validateConfig", !.patterns = routeList,
                               !.ok = validateConfig(routeList),
                               !.manifest = IF validateConfig(routeList)
                                            THEN buildManifest(routeList)
                                            ELSE buildManifest(<< >>)]
    /\ UNCHANGED siteVars

\* The functions are applied to URLs, paths, patterns and route files
\* drawn from small sets.  Template keys are derived for LibPatterns, a
\* pattern with static segments around dynamic ones, an all-dynamic one
\* and two with an empty segment; validation is given the route files of
\* LibRouteFiles, the empty one, and ones with a pattern without leading
\* slash, without parameter, empty, or with a colon that names nothing.
LibNext ==
    \/ \E uri \in { <<"/", "p", "/", "4">>, <<"/", "q">> },
          querystring \in { << >>, <<"x", "=", "1">>, <<"__clara_bypass", "=", "1">>,
                            <<"x", "=", "1", "&", "__clara_bypass", "=", "1">> },
          status \in { 200, 403, 404 },
          indexHtml \in { << >>, <<"shell">> },
          manifest \in { NoManifest, ParsedManifest(ManifestObj(buildManifest(<<P1>>))) },
          renderedHtml \in { << >>, <<"rendered">> } :
          ResponseCall(uri, querystring, status, indexHtml, manifest, renderedHtml)
    \/ \E title \in Titles, description \in { << >>, <<"D", "\"">> },
          manifest \in { << >>, <<"/", "m", ".", "json">> }, ogTitle \in { << >>, <<"O", "&">> } :
          MetadataCall([title |-> title, description |-> description, manifest |-> manifest,
                        ogTitle |-> ogTitle])
    \/ \E url \in LibUrls, patterns \in LibRouteFiles : MatchRouteCall(url, patterns)
    \/ \E a \in ParamNames, b \in ParamNames, x \in LibValues, y \in LibValues :
          SubstituteCall(a, b, x, y)
    \/ \E path \in LibPaths, path2 \in LibPaths : DeriveKeysCall(path, path2)
    \/ \E path \in { u \in LibPaths \cup RawUris : StartsWith(u, <<"/">>) } : RewriteCall(path)
    \/ \E pattern \in LibPatterns \cup
                       { <<"/", ":", "i", "/", "p", "/", ":", "v">>,
                         <<"/", ":", "i", "/", "p", "/", ":", "v", "/", "q", "/", ":", "w">>,
                         <<"/", ":", "i", "/", ":", "v", "/", ":", "w">>,
                         <<"/", "p", "/", "/", ":", "i">>,
                         <<"/", "p", "/", ":", "i", "/">> } : FallbackKeyCall(pattern)
    \/ \E routeList \in LibRouteFiles \cup { << >> }
                         \cup { <<a>> : a \in { <<"p", "/", ":", "i">>, <<"/", "p">>, << >>,
                                                <<"/", "p", "/", ":">> } }
                         \cup { <<P1, a>> : a \in { <<"p", "/", ":", "i">>, <<"/", "p">>, << >>,
                                                    <<"/", "p", "/", ":">> } } :
          ValidateCall(routeList)

LibSpec == Init /\ [][LibNext]_vars

(***************************************************************************)
(* Properties                                                              *)
(***************************************************************************)
\* What a route table is required to answer, stated on path segments: the
\* first pattern with as many segments as the path, whose static segments
\* equal the path's and whose parameters each take one non-empty segment.
SegmentsOf(path) == Split(StripLeadingSlash(path), "/")

IsDynamic(segment) == StartsWith(segment, <<":">>)

PatternFits(pattern, path) ==
    LET ps == SegmentsOf(pattern)
        us == SegmentsOf(path)
    IN /\ Len(ps) = Len(us)
       /\ \A i \in 1..Len(ps) : IF IsDynamic(ps[i]) THEN us[i] # << >> ELSE us[i] = ps[i]

BoundParams(pattern, path) ==
    LET ps == SegmentsOf(pattern)
        us == SegmentsOf(path)
        all == [i \in 1..Len(ps) |-> [dyn |-> IsDynamic(ps[i]), name |-> Tail(ps[i]),
                                      value |-> us[i]]]
        IsParam(x) == x.dyn
        dyn == SelectSeq(all, IsParam)
    IN [i \in 1..Len(dyn) |-> [name |-> dyn[i].name, value |-> dyn[i].value]]

ExpectedMatch(path, manifestRoutes) ==
    LET fits == { i \in 1..Len(manifestRoutes) : PatternFits(manifestRoutes[i].pattern, path) }
    IN IF fits = {} THEN [found |-> FALSE, pattern |-> << >>, params |-> << >>]
       ELSE LET first == CHOOSE i \in fits : \A j \in fits : i <= j
            IN [found |-> TRUE, pattern |-> manifestRoutes[first].pattern,
                params |-> BoundParams(manifestRoutes[first].pattern, path)]

C3_InvokesOnceWithMatch ==
    \A e \in Edges :
        LET ed == edge[e]
            cleanUri == StripHtml(ed.uri)
            expected == ExpectedMatch(cleanUri, ed.manifest.routes)
        IN (ed.manifest.ok /\ ~ed.fileExists /\ expected.found) =>
              /\ ed.invoked = 1
              /\ ed.payload = [uri |-> cleanUri, routePattern |-> expected.pattern,
                               params |-> expected.params]
              /\ rend[e].pc # "off" => rend[e].event = ed.payload
              /\ ed.pc = "done" =>
                    ed.invokeFailed \/ rend[e].pc \in {"returned", "timedout"}

C3_Witness ==
    \E e \in Edges :
        /\ edge[e].pc = "done"
        /\ edge[e].manifest.ok
        /\ ~edge[e].fileExists
        /\ edge[e].invoked = 1
        /\ rend[e].pc = "returned"
        /\ rend[e].event = [uri |-> <<"/", "p", "/", "4", "/", "7">>,
                            routePattern |-> P2,
                            params |-> <<[name |-> <<"i">>, value |-> <<"4">>],
                                         [name |-> <<"v">>, value |-> <<"7">>]>>]

\* C4: when two renderer invocations for the same path have both written
\* the artifact and returned, and no deploy has deleted it since, the
\* artifact key holds exactly the document one of them wrote, and each of
\* the two has answered success unless a store operation of its own failed.
C4_LastWriteWins ==
    \A e1, e2 \in Edges :
        LET key == deriveS3Key(rend[e1].event.uri)
        IN (/\ e1 # e2
            /\ rend[e1].pc = "returned" /\ rend[e2].pc = "returned"
            /\ rend[e1].event.uri = rend[e2].event.uri
            /\ key \in rend[e1].wrote /\ key \in rend[e2].wrote
            /\ key \notin removed) =>
               /\ key \in DOMAIN store
               /\ store[key].body \in {rend[e1].html, rend[e2].html}
               /\ \A e \in {e1, e2} : ~rend[e].ioError => rend[e].result.statusCode = 200

C4_Witness ==
    \E e1, e2 \in Edges :
        LET key == deriveS3Key(rend[e1].event.uri)
        IN /\ e1 # e2
           /\ rend[e1].pc = "returned" /\ rend[e2].pc = "returned"
           /\ rend[e1].event.uri = rend[e2].event.uri
           /\ rend[e1].atInvoke.state = "rejected" /\ rend[e2].atInvoke.state = "rejected"
           /\ rend[e1].existing.state = "rejected" /\ rend[e2].existing.state = "rejected"
           /\ key \in rend[e1].wrote /\ key \in rend[e2].wrote
           /\ rend[e1].html # rend[e2].html
           /\ rend[e1].result.statusCode = 200 /\ rend[e2].result.statusCode = 200
           /\ faults = 0
           /\ key \in DOMAIN store
           /\ store[key].body = rend[e1].html

\* C5: a renderer invocation that ends with the failure result has written
\* nothing to the store.
C5_FailedRenderLeavesNothing ==
    \A e \in Edges :
        (rend[e].pc = "returned" /\ rend[e].result.statusCode = 500) => rend[e].wrote = {}

C7_NullMetadataIsNotFound ==
    \A e \in Edges :
        rend[e].metadata.kind = "null" =>
            /\ rend[e].wrote = {}
            /\ rend[e].pc = "returned" => rend[e].result.statusCode # 200

\* C8: no document the renderer has written at an artifact key holds a
\* parameter placeholder.
C8_NoPlaceholderPersisted ==
    \A e \in Edges :
        deriveS3Key(rend[e].event.uri) \in rend[e].wrote => ~HasPlaceholder(rend[e].html)

\* C9: when the renderer call of a request has failed (the invocation
\* could not be made, it answered a failure, or it timed out), the handler
\* is not stopped without forwarding and has invoked the renderer once.
C9_ForwardsAfterRendererFailure ==
    \A e \in Edges :
        (\/ edge[e].invokeFailed
         \/ rend[e].pc = "timedout"
         \/ rend[e].pc = "returned" /\ rend[e].result.statusCode # 200) =>
            /\ edge[e].pc # "killed"
            /\ edge[e].invoked = 1

\* C10: a handler invocation is never stopped by the platform while the
\* metadata generator of its renderer call has not answered: it stops
\* waiting by itself first.
C10_WaitIsBounded ==
    \A e \in Edges : ~(edge[e].pc = "killed" /\ rend[e].pc = "meta")

\* C11: a renderer invocation in which the fallback template was missing or
\* empty, a user hook threw or rejected, or an upload failed, answers the
\* render-failed result (status 500, no document); and the only function
\* error a caller ever sees from the renderer is the platform's timeout,
\* never an exception of the handler.
C11_FailuresAreRenderFailed ==
    \A e \in Edges :
        /\ (rend[e].pc = "returned" /\ rend[e].failure # "none") =>
              rend[e].result = [statusCode |-> 500, html |-> << >>, functionError |-> FALSE]
        /\ rend[e].result.functionError => rend[e].pc = "timedout"

C13_FoundForwardsAtOnce ==
    \A e \in Edges :
        edge[e].fileExists =>
            /\ edge[e].pc = "done"
            /\ edge[e].result = [kind |-> "request", uri |-> edge[e].uri]
            /\ edge[e].got = "none"
            /\ edge[e].manifest = NoManifest
            /\ edge[e].match = NoRouteMatch
            /\ edge[e].invoked = 0
            /\ rend[e] = OffRend

\* A location that has never read the manifest forwards a request for a
\* page another location's render has just written.
C13_Witness ==
    \E e \in Edges :
        /\ edge[e].pc = "done"
        /\ edge[e].fileExists
        /\ edge[e].uri = <<"/", "p", "/", "4", ".", "html">>
        /\ manifestCache[e] = EmptyCache
        /\ rend[e] = OffRend

\* The last segment of the path ends in a dot and an extension other than
\* html.
HasAssetExtension(uri) ==
    /\ Len(uri) >= 3
    /\ uri[Len(uri) - 1] = "."
    /\ uri[Len(uri)] \notin {"/", ".", "html"}
    /\ uri[Len(uri) - 2] # "/"

\* C14: a handler started for a path with an extension other than .html
\* has returned the request without taking any step: no existence check,
\* no call of getManifest, no renderer invocation.
C14_AssetsPassThrough ==
    \A e \in Edges :
        (edge[e].pc # "idle" /\ HasAssetExtension(edge[e].uri)) =>
            /\ edge[e] = Forward([IdleEdge EXCEPT !.uri = edge[e].uri,
                                                  !.start = edge[e].start])
            /\ rend[e] = OffRend

\* C15: a handler whose existence check found no document and whose call of
\* getManifest gave no manifest, or a manifest none of whose patterns fits
\* the path, has returned the request and has not invoked the renderer.
C15_NoMatchForwards ==
    \A e \in Edges :
        LET ed == edge[e]
        IN (/\ ~ed.fileExists
            /\ ed.got # "none"
            /\ ~(ed.manifest.ok /\ ExpectedMatch(StripHtml(ed.uri), ed.manifest.routes).found)) =>
               /\ ed.pc = "done"
               /\ ed.result = [kind |-> "request", uri |-> ed.uri]
               /\ ed.invoked = 0
               /\ ed.payload = NoEvent
               /\ rend[e] = OffRend

\* One location has forwarded a path that fits no pattern, another a path
\* that fits one but whose read of the manifest failed.
C15_Witness ==
    \E e1, e2 \in Edges :
        /\ edge[e1].pc = "done" /\ edge[e2].pc = "done"
        /\ edge[e1].uri = <<"/", "q", ".", "html">>
        /\ edge[e1].got = "store" /\ edge[e1].manifest.ok /\ edge[e1].invoked = 0
        /\ edge[e2].uri = <<"/", "p", "/", "4", ".", "html">>
        /\ edge[e2].got = "failed" /\ ~edge[e2].fileExists /\ edge[e2].invoked = 0

\* C16: nothing serialises two requests for one path.  Whenever two
\* locations handle requests for the same path and both existence checks
\* answered not found with a pattern of the manifest fitting, both have
\* invoked the renderer; and whenever the de-dup reads of both invocations
\* found no artifact and both read the template of a route the renderer
\* knows, both have called the metadata generator.
C16_NoRenderLock ==
    \A e1, e2 \in Edges :
        (e1 # e2 /\ edge[e1].uri = edge[e2].uri) =>
            /\ (\A e \in {e1, e2} :
                    /\ ~edge[e].fileExists
                    /\ edge[e].manifest.ok
                    /\ ExpectedMatch(StripHtml(edge[e].uri), edge[e].manifest.routes).found)
                  => edge[e1].invoked = 1 /\ edge[e2].invoked = 1
            /\ (\A e \in {e1, e2} :
                    /\ rend[e].pc # "off"
                    /\ rend[e].event.uri = StripHtml(edge[e].uri)
                    /\ rend[e].existing.state = "rejected"
                    /\ rend[e].fallback.state = "fulfilled"
                    /\ rend[e].fallback.body # << >>
                    /\ HasRouteDef(rend[e].event.routePattern))
                  => rend[e1].metaCalls = 1 /\ rend[e2].metaCalls = 1

\* Two requests for one path: both existence checks answered not found,
\* both renderer invocations read no artifact, and the metadata generator
\* is running for both at once.
C16_Witness ==
    \E e1, e2 \in Edges :
        /\ e1 # e2
        /\ edge[e1].uri = edge[e2].uri
        /\ \A e \in {e1, e2} :
              /\ edge[e].pc = "wait"
              /\ ~edge[e].fileExists /\ ~edge[e].headFailed
              /\ edge[e].invoked = 1
              /\ rend[e].event.uri = StripHtml(edge[e].uri)
              /\ rend[e].existing.state = "rejected"
              /\ ~rend[e].ioError
              /\ rend[e].pc = "meta"
              /\ rend[e].metaCalls = 1

\* C17: a renderer invocation whose validation hook has rejected the
\* params has returned the not-found result (status 404, no document)
\* without issuing the reads of the artifact and the template, without
\* calling the metadata generator and without writing to the store.
C17_RejectedParamsPersistNothing ==
    \A e \in Edges :
        rend[e].isValid = "false" =>
            /\ rend[e].pc = "returned"
            /\ rend[e].result = [statusCode |-> 404, html |-> << >>, functionError |-> FALSE]
            /\ rend[e].existing = Pending
            /\ rend[e].fallback = Pending
            /\ rend[e].metaCalls = 0
            /\ rend[e].metadata = NoMetadata
            /\ rend[e].wrote = {}

\* The hook rejected the params of /p/4; the handler has forwarded and the
\* store holds no artifact for the path.
C17_Witness ==
    \E e \in Edges :
        /\ rend[e].isValid = "false"
        /\ rend[e].result.statusCode = 404
        /\ rend[e].event.uri = <<"/", "p", "/", "4">>
        /\ edge[e].pc = "done"
        /\ deriveS3Key(rend[e].event.uri) \notin DOMAIN store

TitleOf(doc) ==
    LET i == IndexOf(doc, <<"<title>">>)
        j == IndexOf(Drop(doc, i), <<"</title>">>)
    IN IF i = 0 \/ j = 0 THEN << >> ELSE SubSeq(doc, i + 1, i + j - 1)

\* C19: the example, with the route /p/:i for /product/:id, the page /p/4
\* for /product/42 and the title W for "Widget".  A handler that found no
\* artifact for /p/4 and holds a manifest has invoked the renderer with
\* the params {i: "4"}; and once an invocation for /p/4 whose metadata
\* generator returned the title W has written the artifact, and nobody
\* else has written or deleted it, the store holds at p/4.html the
\* document the invocation rendered, and its title is W.
C19_WidgetExample ==
    \A e \in Edges :
        LET key == <<"p", "/", "4", ".", "html">>
        IN /\ (/\ edge[e].uri = <<"/", "p", "/", "4", ".", "html">>
               /\ ~edge[e].fileExists
               /\ edge[e].manifest.ok) =>
                  /\ edge[e].invoked = 1
                  /\ edge[e].payload = [uri |-> <<"/", "p", "/", "4">>, routePattern |-> P1,
                                         params |-> <<Param("i", "4")>>]
           /\ (/\ rend[e].event.uri = <<"/", "p", "/", "4">>
               /\ rend[e].metadata = [kind |-> "value", title |-> <<"W">>]
               /\ key \in rend[e].wrote
               /\ key \notin removed
               /\ \A other \in Edges \ {e} : key \notin rend[other].wrote) =>
                  /\ key \in DOMAIN store
                  /\ store[key].body = rend[e].html
                  /\ TitleOf(store[key].body) = <<"W">>

\* The example has run on one location and a second location's existence
\* check finds the artifact.
C19_Witness ==
    \E e, other \in Edges :
        LET key == <<"p", "/", "4", ".", "html">>
        IN /\ e # other
           /\ edge[e].payload.params = <<Param("i", "4")>>
           /\ ~edge[e].fileExists /\ ~edge[e].headFailed
           /\ rend[e].atInvoke.state = "rejected"
           /\ rend[e].pc = "returned"
           /\ rend[e].result.statusCode = 200
           /\ rend[e].metadata = [kind |-> "value", title |-> <<"W">>]
           /\ key \in DOMAIN store
           /\ TitleOf(store[key].body) = <<"W">>
           /\ edge[other].uri = <<"/", "p", "/", "4", ".", "html">>
           /\ edge[other].pc = "done"
           /\ edge[other].fileExists

\* The value of the component prop `name` in a document.
PropValue(doc, name) ==
    LET hd == <<"{">> \o name \o <<"=">>
        i == IndexOf(doc, hd)
        rest == Drop(doc, i + Len(hd) - 1)
        j == IndexOf(rest, <<"}">>)
    IN IF i = 0 \/ j = 0 THEN << >> ELSE Take(rest, j - 1)

\* C20: in the document a renderer invocation has built from the template
\* of its route, the prop of every parameter holds that parameter's value:
\* the substitution of one parameter's placeholder has not touched the
\* placeholder of another.
C20_NoCrossContamination ==
    \A e \in Edges :
        (rend[e].fallback.state = "fulfilled" /\ rend[e].pc \in {"meta", "puthtml", "puttxt", "segs"}) =>
            \A k \in 1..Len(rend[e].event.params) :
                PropValue(rend[e].html, rend[e].event.params[k].name)
                    = rend[e].event.params[k].value

\* The path of a URL: without its query string and without one trailing
\* slash.
PathOf(url) ==
    LET q == IndexOf(url, <<"?">>)
        path == IF q = 0 THEN url ELSE Take(url, q - 1)
    IN IF Len(path) > 1 /\ path[Len(path)] = "/" THEN Take(path, Len(path) - 1) ELSE path

\* C22: when the path of the URL fits patterns of the manifest, matchRoute
\* returns the entry of the first of them in manifest order, with the
\* parameters that entry alone binds for the URL; when it fits none,
\* matchRoute returns nothing.
C22_FirstMatchWins ==
    call.fn = "matchRoute" =>
        LET entries == call.manifest.routes
            fits == { k \in 1..Len(entries) : PatternFits(entries[k].pattern, PathOf(call.url)) }
        IN IF fits = {} THEN ~call.match.found
           ELSE LET first == CHOOSE k \in fits : \A j \in fits : k <= j
                IN /\ call.match.found
                   /\ call.match.route = entries[first]
                   /\ call.match.params = matchRoute(call.url, <<entries[first]>>).params

\* /p/4 fits both /:i/:v and /p/:i; the first in the manifest is returned.
C22_Witness ==
    /\ call.fn = "matchRoute"
    /\ call.url = <<"/", "p", "/", "4">>
    /\ call.patterns = << <<"/", ":", "i", "/", ":", "v">>, P1 >>
    /\ call.match.found
    /\ call.match.route.pattern = <<"/", ":", "i", "/", ":", "v">>
    /\ call.match.params = <<Param("i", "p"), Param("v", "4")>>

\* C23: for a manifest of one pattern, matchRoute returns nothing when the
\* path of the URL has extra or missing segments or a static segment that
\* differs from the pattern's, and otherwise returns a match that binds
\* every parameter of the pattern to the path segment at its position, as
\* written in the URL (percent-encoded or not); the query string and one
\* trailing slash play no part.
C23_MatchIsStructural ==
    (call.fn = "matchRoute" /\ Len(call.patterns) = 1) =>
        LET expected == ExpectedMatch(PathOf(call.url), call.manifest.routes)
        IN /\ call.match.found = expected.found
           /\ call.match.found => call.match.params = expected.params

\* The positions of the dynamic segments of a pattern.
DynamicSegments(pattern) ==
    { k \in 1..Len(SegmentsOf(pattern)) : IsDynamic(SegmentsOf(pattern)[k]) }

\* C24: a pattern with n dynamic segments compiles to exactly n parameter
\* names, no two equal, in the order of the segments; a path of the same
\* segment structure yields exactly n bound values, in that order.
C24_CompileYieldsParams ==
    (call.fn = "matchRoute" /\ Len(call.patterns) = 1) =>
        LET names == call.manifest.routes[1].paramNames
            n == Cardinality(DynamicSegments(call.patterns[1]))
        IN /\ Len(names) = n
           /\ \A j, k \in 1..Len(names) : names[j] = names[k] => j = k
           /\ call.match.found =>
                  /\ Len(call.match.params) = n
                  /\ \A k \in 1..n : call.match.params[k].name = names[k]
                  /\ call.match.params = BoundParams(call.patterns[1], PathOf(call.url))

\* C21: substituting the parameters into a template one pass each gives
\* the same document whatever the order of the passes.
C21_SubstitutionOrderIndependent ==
    call.fn = "substitute" => call.doc = call.doc2

\* The page a path names: the path without one leading slash, one trailing
\* slash and a final ".html"; the empty path names the page "index".
PageOf(path) ==
    LET a == IF path # << >> /\ Head(path) = "/" THEN Tail(path) ELSE path
        b == IF a # << >> /\ a[Len(a)] = "/" THEN Take(a, Len(a) - 1) ELSE a
        c == IF Len(b) >= 2 /\ b[Len(b) - 1] = "." /\ b[Len(b)] = "html"
             THEN Take(b, Len(b) - 2) ELSE b
    IN IF b = << >> THEN <<"index">> ELSE c

C26_RewriteAlignedWithKey ==
    (/\ call.fn = "rewrite"
     /\ ~Includes(call.url, <<".">>)
     /\ call.url[Len(call.url)] # "/") => call.url2 = <<"/">> \o call.key

\* /p/4 is rewritten to /p/4.html; the renderer's key is p/4.html.
C26_Witness ==
    /\ call.fn = "rewrite"
    /\ call.url = <<"/", "p", "/", "4">>
    /\ call.url2 = <<"/", "p", "/", "4", ".", "html">>
    /\ call.key = <<"p", "/", "4", ".", "html">>

\* C27: for every route pattern, the key under which deploy writes the
\* fallback template is the key from which the renderer loads it.
C27_TemplateKeysAgree ==
    call.fn = "fallbackKey" => call.key = call.key2

\* C28: validation rejects every route file with a pattern that lacks the
\* leading "/" or has no dynamic segment, and every pattern of a manifest
\* built after validation has at least one parameter name.
C28_ValidatedPatternsHaveParams ==
    call.fn = "validateConfig" =>
        /\ (\E k \in 1..Len(call.patterns) :
               \/ ~StartsWith(call.patterns[k], <<"/">>)
               \/ DynamicSegments(call.patterns[k]) = {}) => ~call.ok
        /\ call.ok => \A k \in 1..Len(call.manifest.routes) :
                         call.manifest.routes[k].paramNames # << >>

\* C29: during a sync without concurrent writer, a key is deleted only
\* after every build file is uploaded, a deleted key is never one of the
\* build, a build file that is in the store stays in the store, and when
\* the sync ends the store's key set is the build's file set.
C29_UploadThenDelete ==
    [][LET build == DOMAIN deploy.build
           gone == (DOMAIN store) \ (DOMAIN store')
       IN /\ gone # {} => /\ build \subseteq DOMAIN store
                           /\ deploy.next = Len(listFiles(deploy.build)) + 1
                           /\ gone \cap build = {}
          /\ deploy.pc \in {"upload", "list", "delete"} =>
                (build \cap DOMAIN store) \subseteq DOMAIN store'
          /\ (deploy.pc \in {"list", "delete"} /\ deploy'.pc = "renderer") =>
                DOMAIN store' = build]_vars

\* A sync has ended after deleting stale pages.
C29_Witness ==
    /\ deploy.pc = "renderer"
    /\ removed # {}
    /\ removed \subseteq StaleKeys \cup {FALLBACK_FILENAME}
    /\ DOMAIN store = DOMAIN deploy.build

\* C30: a step that is not a step of deploy changes, if anything, the
\* artifact key or the payload sibling of the path a running renderer was
\* invoked for, and never the manifest key or the key of a fallback
\* template; a step of the edge function changes nothing.
C30_RequestTimeReadsOnly ==
    [][LET ChangedKeys == { k \in (DOMAIN store) \cup (DOMAIN store') :
                              \/ k \notin DOMAIN store
                              \/ k \notin DOMAIN store'
                              \/ store[k] # store'[k] }
           TemplateKeys == { fallbackRelativePath(routes[j]) : j \in 1..Len(routes) }
       IN deploy' = deploy =>
            \A k \in ChangedKeys :
                /\ \E e \in Edges :
                      /\ rend[e].pc \in {"puthtml", "puttxt"}
                      /\ k \in { deriveS3Key(rend[e].event.uri),
                                  TxtKey(deriveS3Key(rend[e].event.uri)) }
                /\ k # MANIFEST_KEY
                /\ k \notin TemplateKeys]_vars

\* C32: when routes of the deployed route file have the same static
\* segments, the build output holds, at their common template key, the
\* template generated for the last of them that has a template page, and
\* so does the store when the sync has ended.
C32_LastTemplateWins ==
    deploy.pc # "idle" =>
        \A j \in 1..Len(deploy.routeFile) :
            LET out == BuildOutput(deploy.routeFile)
                key == deriveFallbackKey(deploy.routeFile[j])
                same == { k \in 1..Len(deploy.routeFile) :
                            /\ StaticParts(deploy.routeFile[k]) = StaticParts(deploy.routeFile[j])
                            /\ findTemplateForRoute(out, deploy.routeFile[k]) # << >> }
                last == CHOOSE k \in same : \A i \in same : i <= k
                template == TextObj(generateFallbackFromTemplate(
                                        out[findTemplateForRoute(out, deploy.routeFile[last])].body,
                                        deploy.routeFile[last]))
            IN same # {} =>
                 /\ deploy.build[key] = template
                 /\ deploy.pc = "renderer" => store[key] = template

\* /p/:i and /p/:i/:v share p/_fallback.html; after the sync the store
\* holds the template of /p/:i/:v there, which is not that of /p/:i.
C32_Witness ==
    /\ deploy.pc = "renderer"
    /\ deploy.routeFile = <<P1, P2>>
    /\ deriveFallbackKey(P1) = deriveFallbackKey(P2)
    /\ store[deriveFallbackKey(P1)] =
          TextObj(generateFallbackFromTemplate(BuildOutput(<<P1, P2>>)[K_page12].body, P2))
    /\ store[deriveFallbackKey(P1)] #
          TextObj(generateFallbackFromTemplate(BuildOutput(<<P1, P2>>)[K_page1].body, P1))

\* C31: for every metadata value, every tag emitted into the head has an
\* entry in the payload's metadata entry with the same element, the same
\* naming attribute and the same value (each in its own escaping), and
\* every entry of the payload but the title has such a tag in the head.
C31_HeadAndPayloadAgree ==
    call.fn = "patchMetadata" =>
        LET metadata == call.params[1]
            values == { metadata.description, metadata.manifest, metadata.ogTitle }
            Same(tag, entry) ==
                /\ tag.el = entry.el
                /\ tag.attr = entry.attr
                /\ tag.key = entry.key
                /\ \E v \in values : tag.content = escapeAttr(v) /\ entry.content = escapeRsc(v)
        IN /\ \A j \in 1..Len(call.doc) : \E k \in 2..Len(call.doc2) :
                 Same(call.doc[j], call.doc2[k])
           /\ \A k \in 2..Len(call.doc2) : \E j \in 1..Len(call.doc) :
                 Same(call.doc[j], call.doc2[k])

\* C33: in the response-trigger design a request whose query string
\* carries the bypass flag never invokes the renderer and never reads the
\* manifest.
C33_BypassNeverRenders ==
    (call.fn = "handleEdgeResponse" /\ Includes(call.url2, <<"__clara_bypass">>)) =>
        /\ ~call.rendererInvoked
        /\ ~call.manifestRead

\* The renderer's own fetch of /p/4, which matches a route and is not in
\* the store, is answered with the generic shell.
C33_Witness ==
    /\ call.fn = "handleEdgeResponse"
    /\ call.url = <<"/", "p", "/", "4">>
    /\ call.url2 = <<"__clara_bypass", "=", "1">>
    /\ call.status = 404
    /\ call.manifest.ok
    /\ call.action = "serve-html"
    /\ call.doc = <<"shell">>
    /\ ~call.rendererInvoked

\* C34: once a deploy has finished, an artifact that a render has written
\* and that is still in the store was produced from the fallback template
\* the store holds for its route, not from the template of the deploy
\* before.
C34_NoArtifactOfOldTemplate ==
    (deploy.pc = "idle" /\ deploys > 0) =>
        \A e \in Edges :
            LET key == deriveS3Key(rend[e].event.uri)
                templateKey == deriveFallbackKey(rend[e].event.routePattern)
            IN (/\ key \in rend[e].wrote
                /\ key \in DOMAIN store
                /\ store[key].body = rend[e].html) =>
                   /\ templateKey \in DOMAIN store
                   /\ rend[e].fallback.body = store[templateKey].body

\* C37: the renderer persists an artifact only for a pattern that has a route
\* definition (with its metadata generator) in the renderer's own route
\* table: an invocation that has written an object has found the route
\* definition and called its generator; an invocation that names a pattern
\* the route table does not hold writes nothing.
C37_PersistsOnlyKnownPatterns ==
    \A e \in Edges : rend[e].wrote # {} => rend[e].metaCalls > 0

\* C38: a manifest object that can be read from the store but is malformed
\* (no route list, or a pattern whose regex is invalid) does not make the
\* edge function fail: a handler that has read such an object and has ended
\* has returned the request, which is forwarded to the store.
C38_MalformedManifestForwards ==
    \A e \in Edges :
        LET manifest == edge[e].manifest
            malformed ==
                \/ ~manifest.hasRoutes
                \/ \E i \in 1..Len(manifest.routes) :
                      \E j \in 1..Len(manifest.routes[i].regex) :
                          manifest.routes[i].regex[j].k = "open"
        IN (edge[e].pc = "done" /\ manifest.ok /\ malformed) =>
               edge[e].result = [kind |-> "request", uri |-> edge[e].uri]

\* C39: a transient store error (or a temporarily missing reference page)
\* during the lookup of the reference segment files does not disable
\* segment generation on that renderer instance for good: when a later
\* render for the same route prefix comes to its segment files on an
\* instance whose earlier lookup found nothing, it performs the lookup
\* (the listing of the prefix) again.
C39_LookupIsRepeated ==
    \A e \in Edges :
        LET routePrefix == RoutePrefix(rend[e].event.uri)
            failedBefore == \E c \in referencePageCache[e] :
                                c.routePrefix = routePrefix /\ c.dir = << >>
        IN (rend[e].pc = "segs" /\ failedBefore) =>
               findReferenceSegmentDir(referencePageCache[e], store, routePrefix, TRUE).listing

\* C35: after two concurrent renders of the same new path have completed,
\* the document at the artifact key, the payload sibling and the segment
\* files all come from the same render invocation, even when the two
\* metadata-generator calls returned different values: one of the two
\* invocations has produced every one of these objects that the store holds.
C35_ArtifactsFromOneRender ==
    LET uri == rend["e1"].event.uri
        s3Key == deriveS3Key(uri)
        segmentDir == StripTrailingSlash(StripLeadingSlash(uri)) \o <<"/">>
        Holds(key, body) == key \in DOMAIN store => store[key].body = body
        From(e) ==
            LET rscData == extractRscFlightData(rend[e].html).data
            IN /\ Holds(s3Key, rend[e].html)
               /\ Holds(TxtKey(s3Key), rscData)
               /\ Holds(segmentDir \o SegmentFile("full"), rscData)
               /\ Holds(segmentDir \o SegmentFile("head"),
                        <<"0:", "Next.Metadata[">> \o rend[e].metadata.title \o <<"]">>)
    IN (/\ \A e \in Edges : rend[e].pc = "returned" /\ s3Key \in rend[e].wrote
        /\ rend["e2"].event.uri = uri) =>
           \E e \in Edges : From(e)

\* C36: every request for a page whose path matches a manifest pattern and
\* has no artifact yet leads to a renderer invocation for that path, also
\* when a parameter value contains a dot and when the requested path ends
\* with a slash: with no store error, a handler that has ended for such a
\* path while the artifact is still missing has invoked the renderer for it.
C36_MatchingRequestRenders ==
    \A e \in Edges, raw \in SegRawUris :
        LET manifest == ParsedManifest(store[MANIFEST_KEY])
        IN (/\ edge[e].pc = "done"
            /\ edge[e].uri = cfFunctionRewrite(raw)
            /\ faults = 0
            /\ manifest.hasRoutes
            /\ ~matchRouteThrows(raw, manifest.routes)
            /\ matchRoute(raw, manifest.routes).found
            /\ deriveS3Key(raw) \notin DOMAIN store) =>
               /\ edge[e].invoked > 0
               /\ edge[e].payload.uri = CleanUrl(raw)

=============================================================================
